---- MODULE Spec2Model ----
(***************************************************************************)
(* Model of the Ondo GM simulator:                                         *)
(*   src/constants.rs   allow-list and GM token table lookups              *)
(*   src/discriminator.rs  Anchor instruction discriminator                *)
(*   src/parser.rs      is_jupiter_fill_instruction, parse_fill_for_gm_trade*)
(*   src/mint_instruction.rs  build_mock_mint_gm_instruction(_with_ata)    *)
(*   src/simulator.rs   check_gm_trade, check_gm_trade_message,            *)
(*                      check_gm_trade_versioned(_message),                *)
(*                      build_mock_mint_transaction,                       *)
(*                      build_mock_mint_instruction(_to_ata),              *)
(*                      maybe_build_mock_mint                              *)
(* A state is one call in progress.  For a classification call (Spec,      *)
(* FairSpec) it holds the message (account keys and compiled               *)
(* instructions), the entry point called, the position inside the called   *)
(* function, the instruction found and the value returned.  For a builder  *)
(* call (BuildSpec) it holds the GmTradeInfo passed, the builder called    *)
(* and the instruction or transaction returned.  For two calls in a row    *)
(* (PairSpec) it holds in addition the blockhash passed to                 *)
(* maybe_build_mock_mint and, in prev, the first call and its result.      *)
(***************************************************************************)
EXTENDS Integers, Sequences, FiniteSets, TLC

VARIABLES account_keys, instructions, entry, variant, pc, instruction, result, trade_info,
          hash, prev

vars ==
    <<account_keys, instructions, entry, variant, pc, instruction, result, trade_info,
      hash, prev>>

(***************************************************************************)
(* Bounds of the model.                                                    *)
(***************************************************************************)
\* largest number of instructions in a message
MaxIx == 2

(***************************************************************************)
(* Rust values: Option, Result, slices.                                    *)
(***************************************************************************)
None == [some |-> FALSE]

Some(x) == [some |-> TRUE, v |-> x]

Ok(x) == [ok |-> TRUE, val |-> x]

Err(e) == [ok |-> FALSE, err |-> e]

\* slice.get(idx): zero-based, None past the end
Get(s, idx) == IF idx >= 0 /\ idx < Len(s) THEN Some(s[idx + 1]) ELSE None

\* data[from..to]: zero-based, half-open
Slice(s, from, to) == SubSeq(s, from + 1, to)

RECURSIVE to_le_bytes(_, _)
\* the k low bytes of n, least significant first (n \div 256 rounds down, n % 256 is in 0..255)
to_le_bytes(n, k) == IF k = 0 THEN <<>> ELSE <<n % 256>> \o to_le_bytes(n \div 256, k - 1)

\* A 64-bit integer is held as its four base-65536 digits, least significant first,
\* so that every value of the type has a representation; the top digit of an i64
\* is signed (two's complement).  The value is d[1] + 2^16 d[2] + 2^32 d[3] + 2^48 d[4].

\* u64::from_le_bytes read most significant byte first
u64_from_be_bytes(b) == [i \in 1..4 |-> b[10 - 2 * i] + 256 * b[9 - 2 * i]]

\* u64::from_le_bytes: byte i has weight 256^i
u64_from_le_bytes(b) == [i \in 1..4 |-> b[2 * i - 1] + 256 * b[2 * i]]

\* i64::from_le_bytes: two's complement, the top bit of the last byte is the sign
i64_from_le_bytes(b) ==
    [i \in 1..4 |-> b[2 * i - 1] + 256 * (IF i = 4 /\ b[8] >= 128 THEN b[8] - 256 ELSE b[2 * i])]

\* u64::to_be_bytes for u64::to_le_bytes: most significant byte first
u64_to_be_bytes(amount) ==
    <<amount[4] \div 256, amount[4] % 256, amount[3] \div 256, amount[3] % 256,
      amount[2] \div 256, amount[2] % 256, amount[1] \div 256, amount[1] % 256>>

\* u64::to_le_bytes of a 64-bit integer held as digits
u64_to_le_bytes(amount) ==
    to_le_bytes(amount[1], 2) \o to_le_bytes(amount[2], 2)
        \o to_le_bytes(amount[3], 2) \o to_le_bytes(amount[4], 2)

(***************************************************************************)
(* Addresses.  A Pubkey is named by a short model value; to_string is its  *)
(* base58 text, the form the tables of constants.rs are written in.        *)
(***************************************************************************)
ONDO_GM_PROGRAM_ID == "XzTT4XB8m7sLD2xi6snefSasaswsKCxx5Tifjondogm"

JUPITER_ORDER_ENGINE_PROGRAM_ID == "61DFfeTKM7trxYcPQCM78bJ794ddZprZpAwAnLiwTpYH"

ADMIN_MINTER == "4pfyfezvwjBrsHtJpXPPKsqH9cphwSDDb7s63KzkVEqF"

USDC_MINT == "EPjFWdd5AufqSSqeM2qN1xzybapC8G4wEGGkZwyTDt1v"

SPL_TOKEN_PROGRAM_ID == "TokenkegQfeZyiNwAJbNbGKPFXCWuBvf9Ss623VQ5DA"

TOKEN_2022_PROGRAM_ID == "TokenzQdBNbLqP5VEhdkAS6EPFLC1PHnBqCXEpPxuEb"

\* spl_associated_token_account::id() and system_program::id()
ASSOCIATED_TOKEN_PROGRAM_ID == "ATokenGPvbdGVxr1b2hvZbsiqW5xWH25efTNsLJA8knL"

SYSTEM_PROGRAM_ID == "11111111111111111111111111111111"

AUTHORIZED_SOLVERS ==
    << "DSqMPMsMAbEJVNuPKv1ZFdzt6YvJaDPDddfeW7ajtqds",
       "2Cq2RNFFxxPXL7teNQAji1beA2vFbBDYW5BGPBFvoN9m",
       "9BB7Tt5uE5VdRsxA5XRqrjwNaq8XtgAUQW8czA6ymUPG" >>

\* (symbol, mint address) rows; the first three rows and the last row of the table
GM_TOKENS ==
    << <<"AALon", "9wYZetvT8J2ptfsRca5gzLBGvcUug38mp9yT3xaondo">>,
       <<"AAPLon", "123mYEnRLM2LLYsJW3K6oyYh8uP1fngj732iG638ondo">>,
       <<"ABBVon", "MFerpBVGKZh2jXN7cbJdXRXQTp6j6pbSnSZrfWrondo">>,
       <<"XYZon", "BWxe2FVciUbwrCUZQPUKiREBh5LmVa5AiUqNLAkondo">> >>

\* Pubkey::to_string: the base58 text of each address the model uses
Base58 ==
    [ jupiter |-> JUPITER_ORDER_ENGINE_PROGRAM_ID,
      solver1 |-> AUTHORIZED_SOLVERS[1],
      solver2 |-> AUTHORIZED_SOLVERS[2],
      aalon   |-> GM_TOKENS[1][2],
      aaplon  |-> GM_TOKENS[2][2],
      usdc    |-> USDC_MINT,
      token22 |-> TOKEN_2022_PROGRAM_ID,
      user    |-> "unique:user",
      other_maker |-> "unique:maker",
      other_token |-> "unique:token",
      ata_a   |-> "unique:ata_a",
      ata_b   |-> "unique:ata_b",
      gm_program     |-> ONDO_GM_PROGRAM_ID,
      admin_minter   |-> ADMIN_MINTER,
      spl_token      |-> SPL_TOKEN_PROGRAM_ID,
      ata_program    |-> ASSOCIATED_TOKEN_PROGRAM_ID,
      system_program |-> SYSTEM_PROGRAM_ID ]

Pubkeys == DOMAIN Base58

to_string(pubkey) == Base58[pubkey]

\* Pubkey::from_str(..).expect(..): the address whose base58 text is s
from_str(s) == CHOOSE k \in Pubkeys : to_string(k) = s

ondo_gm_program_id == from_str(ONDO_GM_PROGRAM_ID)

jupiter_order_engine_program_id == from_str(JUPITER_ORDER_ENGINE_PROGRAM_ID)

admin_minter == from_str(ADMIN_MINTER)

usdc_mint == from_str(USDC_MINT)

spl_token_program_id == from_str(SPL_TOKEN_PROGRAM_ID)

token_2022_program_id == from_str(TOKEN_2022_PROGRAM_ID)

spl_associated_token_account_id == from_str(ASSOCIATED_TOKEN_PROGRAM_ID)

system_program_id == from_str(SYSTEM_PROGRAM_ID)

\* is_authorized_solver accepting every address
is_authorized_solver_any(pubkey) == pubkey \in Pubkeys

is_authorized_solver(pubkey) ==
    \E i \in 1..Len(AUTHORIZED_SOLVERS) : AUTHORIZED_SOLVERS[i] = to_string(pubkey)

\* is_gm_token with the comparison inverted (!= for ==)
is_gm_token_inverted(pubkey) ==
    \E i \in 1..Len(GM_TOKENS) : GM_TOKENS[i][2] # to_string(pubkey)

is_gm_token(pubkey) ==
    \E i \in 1..Len(GM_TOKENS) : GM_TOKENS[i][2] = to_string(pubkey)

\* get_gm_token_symbol finding no row
get_gm_token_symbol_none(pubkey) == None

\* iter().find(..).map(|(symbol, _)| symbol): the symbol of the first row with that address
get_gm_token_symbol(pubkey) ==
    LET hits == {i \in 1..Len(GM_TOKENS) : GM_TOKENS[i][2] = to_string(pubkey)}
    IN  IF hits = {} THEN None
        ELSE Some(GM_TOKENS[CHOOSE i \in hits : \A j \in hits : i <= j][1])

(***************************************************************************)
(* Anchor discriminator: sha256("global:<name>")[0..8].                    *)
(***************************************************************************)
instruction_discriminator(name) ==
    CASE name = "fill"    -> <<168, 96, 183, 163, 92, 10, 40, 160>>
      [] name = "mint_gm" -> <<117, 223, 58, 111, 44, 36, 16, 43>>

(***************************************************************************)
(* parser.rs                                                               *)
(***************************************************************************)
TAKER == 0

MAKER == 1

MAKER_OUTPUT_ATA == 5

INPUT_MINT == 6

OUTPUT_MINT == 8

\* is_jupiter_fill_instruction without the program id check
is_jupiter_fill_any_program(ix, program_id, keys) ==
    IF Len(ix.data) < 8 THEN FALSE
    ELSE instruction_discriminator("fill") = Slice(ix.data, 0, 8)

\* is_jupiter_fill_instruction comparing only the first 7 bytes of the tag
is_jupiter_fill_tag7(ix, program_id, keys) ==
    LET ix_program_id == Get(keys, ix.program_id_index)
    IN  IF ix_program_id # Some(program_id) THEN FALSE
        ELSE IF Len(ix.data) < 8 THEN FALSE
        ELSE Slice(instruction_discriminator("fill"), 0, 7) = Slice(ix.data, 0, 7)

is_jupiter_fill_instruction(ix, program_id, keys) ==
    LET ix_program_id == Get(keys, ix.program_id_index)
    IN  IF ix_program_id # Some(program_id) THEN FALSE
        ELSE IF Len(ix.data) < 8 THEN FALSE
        ELSE instruction_discriminator("fill") = Slice(ix.data, 0, 8)

\* get_account with the two errors exchanged
get_account_swapped(ix, keys, idx) ==
    LET account_idx == Get(ix.accounts, idx)
    IN  IF ~account_idx.some THEN Err([kind |-> "MissingAccount"])
        ELSE LET key == Get(keys, account_idx.v)
             IN  IF ~key.some THEN Err([kind |-> "InvalidAccountIndex"]) ELSE Ok(key.v)

\* get_account reading past the key table as if further addresses followed it
get_account_wrapping(ix, keys, idx) ==
    LET account_idx == Get(ix.accounts, idx)
    IN  IF ~account_idx.some THEN Err([kind |-> "InvalidAccountIndex"])
        ELSE IF keys = <<>> THEN Err([kind |-> "MissingAccount"])
        ELSE Ok(keys[(account_idx.v % Len(keys)) + 1])

\* the closure get_account of parse_fill_for_gm_trade
get_account(ix, keys, idx) ==
    LET account_idx == Get(ix.accounts, idx)
    IN  IF ~account_idx.some THEN Err([kind |-> "InvalidAccountIndex"])
        ELSE LET key == Get(keys, account_idx.v)
             IN  IF ~key.some THEN Err([kind |-> "MissingAccount"]) ELSE Ok(key.v)

\* <[u8; 8]>::try_from(slice): fails unless the slice has 8 bytes
try_into8(slice, what) ==
    IF Len(slice) = 8 THEN Ok(slice)
    ELSE Err([kind |-> "InstructionParseError", msg |-> <<what>>])

\* parse_resolved with the GM token check made before the authorization check
parse_resolved_mint_first(ix, maker, taker, maker_output_account, output_mint) ==
    IF ~is_gm_token(output_mint) THEN Ok(None)
    ELSE IF ~is_authorized_solver(maker)
    THEN Err([kind |-> "UnauthorizedMaker", pubkey |-> maker])
    ELSE Ok(Some([ maker |-> maker,
                   taker |-> taker,
                   gm_token_mint |-> output_mint,
                   gm_token_symbol |-> "GM",
                   gm_token_amount |-> u64_from_le_bytes(Slice(ix.data, 16, 24)),
                   maker_output_account |-> maker_output_account,
                   expire_at |-> i64_from_le_bytes(Slice(ix.data, 24, 32)) ]))

\* parse_resolved taking the amount from payload bytes [8, 16), the input amount
parse_resolved_input_amount(ix, maker, taker, maker_output_account, output_mint) ==
    IF ~is_authorized_solver(maker)
    THEN Err([kind |-> "UnauthorizedMaker", pubkey |-> maker])
    ELSE IF ~is_gm_token(output_mint) THEN Ok(None)
    ELSE Ok(Some([ maker |-> maker,
                   taker |-> taker,
                   gm_token_mint |-> output_mint,
                   gm_token_symbol |-> get_gm_token_symbol(output_mint).v,
                   gm_token_amount |-> u64_from_le_bytes(Slice(ix.data, 8, 16)),
                   maker_output_account |-> maker_output_account,
                   expire_at |-> i64_from_le_bytes(Slice(ix.data, 24, 32)) ]))

\* the tail of parse_fill_for_gm_trade, after the four accounts are resolved
parse_resolved(ix, maker, taker, maker_output_account, output_mint) ==
    IF ~is_authorized_solver(maker)
    THEN Err([kind |-> "UnauthorizedMaker", pubkey |-> maker])
    ELSE IF ~is_gm_token(output_mint) THEN Ok(None)
    ELSE LET out == try_into8(Slice(ix.data, 16, 24), "Invalid output amount")
             exp == try_into8(Slice(ix.data, 24, 32), "Invalid expire_at timestamp")
             sym == get_gm_token_symbol(output_mint)
         IN  IF ~out.ok THEN out
             ELSE IF ~exp.ok THEN exp
             ELSE Ok(Some([ maker |-> maker,
                            taker |-> taker,
                            gm_token_mint |-> output_mint,
                            gm_token_symbol |-> IF sym.some THEN sym.v ELSE "GM",
                            gm_token_amount |-> u64_from_le_bytes(out.val),
                            maker_output_account |-> maker_output_account,
                            expire_at |-> i64_from_le_bytes(exp.val) ]))

\* parse_fill_for_gm_trade resolving the taker before the maker
parse_fill_for_gm_trade_taker_first(ix, keys) ==
    IF Len(ix.data) < 32
    THEN Err([kind |-> "InstructionParseError",
              msg |-> <<"Instruction data too short: expected at least 32 bytes, got",
                        Len(ix.data)>>])
    ELSE LET maker == get_account(ix, keys, MAKER)
             taker == get_account(ix, keys, TAKER)
             maker_output_account == get_account(ix, keys, MAKER_OUTPUT_ATA)
             output_mint == get_account(ix, keys, OUTPUT_MINT)
         IN  IF ~taker.ok THEN taker
             ELSE IF ~maker.ok THEN maker
             ELSE IF ~maker_output_account.ok THEN maker_output_account
             ELSE IF ~output_mint.ok THEN output_mint
             ELSE parse_resolved(ix, maker.val, taker.val,
                                 maker_output_account.val, output_mint.val)

\* parse_fill_for_gm_trade with the length check off by one (<= 32 for < 32)
parse_fill_for_gm_trade_off_by_one(ix, keys) ==
    IF Len(ix.data) <= 32
    THEN Err([kind |-> "InstructionParseError",
              msg |-> <<"Instruction data too short: expected at least 32 bytes, got",
                        Len(ix.data)>>])
    ELSE LET maker == get_account(ix, keys, MAKER)
             taker == get_account(ix, keys, TAKER)
             maker_output_account == get_account(ix, keys, MAKER_OUTPUT_ATA)
             output_mint == get_account(ix, keys, OUTPUT_MINT)
         IN  IF ~maker.ok THEN maker
             ELSE IF ~taker.ok THEN taker
             ELSE IF ~maker_output_account.ok THEN maker_output_account
             ELSE IF ~output_mint.ok THEN output_mint
             ELSE parse_resolved(ix, maker.val, taker.val,
                                 maker_output_account.val, output_mint.val)

parse_fill_for_gm_trade(ix, keys) ==
    IF Len(ix.data) < 32
    THEN Err([kind |-> "InstructionParseError",
              msg |-> <<"Instruction data too short: expected at least 32 bytes, got",
                        Len(ix.data)>>])
    ELSE LET maker == get_account(ix, keys, MAKER)
             taker == get_account(ix, keys, TAKER)
             maker_output_account == get_account(ix, keys, MAKER_OUTPUT_ATA)
             output_mint == get_account(ix, keys, OUTPUT_MINT)
         IN  IF ~maker.ok THEN maker
             ELSE IF ~taker.ok THEN taker
             ELSE IF ~maker_output_account.ok THEN maker_output_account
             ELSE IF ~output_mint.ok THEN output_mint
             ELSE parse_resolved(ix, maker.val, taker.val,
                                 maker_output_account.val, output_mint.val)

(***************************************************************************)
(* types.rs: GmCheckResult                                                 *)
(***************************************************************************)
not_gm_trade == [use_gm_bundle_sim |-> FALSE, trade_info |-> None]

\* gm_trade leaving the flag off
gm_trade_flag_off(info) == [use_gm_bundle_sim |-> FALSE, trade_info |-> Some(info)]

gm_trade(info) == [use_gm_bundle_sim |-> TRUE, trade_info |-> Some(info)]

(***************************************************************************)
(* simulator.rs: the steps of check_gm_trade_message and of the V0 arm of  *)
(* check_gm_trade_versioned_message.                                       *)
(***************************************************************************)
\* find_fill returning the last fill of the list (rfind / rposition for find)
find_last_fill(ixs, program_id, keys) ==
    LET hits == {i \in 1..Len(ixs) : is_jupiter_fill_instruction(ixs[i], program_id, keys)}
    IN  IF hits = {} THEN None
        ELSE Some((CHOOSE i \in hits : \A j \in hits : i >= j) - 1)

\* find_fill keeping state between calls: after a call has returned, the last fill
find_fill_remembering(ixs, program_id, keys) ==
    LET hits == {i \in 1..Len(ixs) : is_jupiter_fill_instruction(ixs[i], program_id, keys)}
    IN  IF hits = {} THEN None
        ELSE IF prev.some THEN Some((CHOOSE i \in hits : \A j \in hits : i >= j) - 1)
        ELSE Some((CHOOSE i \in hits : \A j \in hits : i <= j) - 1)

\* instructions.iter().find(pred): the zero-based position of the first instruction
\* that is a Jupiter fill, None when there is none
find_fill(ixs, program_id, keys) ==
    LET hits == {i \in 1..Len(ixs) : is_jupiter_fill_instruction(ixs[i], program_id, keys)}
    IN  IF hits = {} THEN None
        ELSE Some((CHOOSE i \in hits : \A j \in hits : i <= j) - 1)

\* match parse_fill_for_gm_trade(instruction, account_keys)? { Some => gm_trade, None => not_gm_trade }
check_parsed(parsed) ==
    IF ~parsed.ok THEN parsed
    ELSE IF parsed.val.some THEN Ok(gm_trade(parsed.val.v))
    ELSE Ok(not_gm_trade)

(***************************************************************************)
(* Values of solana_sdk and spl_associated_token_account the builders use. *)
(***************************************************************************)
\* AccountMeta::new(pubkey, is_signer): a writable account reference
AccountMeta_new(pubkey, is_signer) ==
    [pubkey |-> pubkey, is_signer |-> is_signer, is_writable |-> TRUE]

\* AccountMeta::new_readonly making the reference writable
AccountMeta_new_readonly_writable(pubkey, is_signer) ==
    [pubkey |-> pubkey, is_signer |-> is_signer, is_writable |-> TRUE]

\* AccountMeta::new_readonly(pubkey, is_signer)
AccountMeta_new_readonly(pubkey, is_signer) ==
    [pubkey |-> pubkey, is_signer |-> is_signer, is_writable |-> FALSE]

Instruction(program_id, accounts, data) ==
    [program_id |-> program_id, accounts |-> accounts, data |-> data]

RECURSIVE JoinSeeds(_)
JoinSeeds(seeds) ==
    IF Len(seeds) = 0 THEN "" ELSE "/" \o Head(seeds) \o JoinSeeds(Tail(seeds))

\* Pubkey::find_program_address(seeds, program_id).0: the address derived from the
\* program and the seeds; different seeds or programs give different addresses
find_program_address(seeds, program_id) == "pda:" \o program_id \o JoinSeeds(seeds)

get_associated_token_address_with_program_id(wallet_address, token_mint_address, token_program_id) ==
    find_program_address(<<wallet_address, token_program_id, token_mint_address>>,
                         spl_associated_token_account_id)

\* create_associated_token_account_idempotent requiring the wallet's signature
create_associated_token_account_idempotent_wallet_signs(funding_address, wallet_address, token_mint_address, token_program_id) ==
    Instruction(
        spl_associated_token_account_id,
        << AccountMeta_new(funding_address, TRUE),
           AccountMeta_new(get_associated_token_address_with_program_id(
                               wallet_address, token_mint_address, token_program_id), FALSE),
           AccountMeta_new_readonly(wallet_address, TRUE),
           AccountMeta_new_readonly(token_mint_address, FALSE),
           AccountMeta_new_readonly(system_program_id, FALSE),
           AccountMeta_new_readonly(token_program_id, FALSE) >>,
        <<1>>)

\* spl_associated_token_account::instruction::create_associated_token_account_idempotent
create_associated_token_account_idempotent(funding_address, wallet_address, token_mint_address, token_program_id) ==
    Instruction(
        spl_associated_token_account_id,
        << AccountMeta_new(funding_address, TRUE),
           AccountMeta_new(get_associated_token_address_with_program_id(
                               wallet_address, token_mint_address, token_program_id), FALSE),
           AccountMeta_new_readonly(wallet_address, FALSE),
           AccountMeta_new_readonly(token_mint_address, FALSE),
           AccountMeta_new_readonly(system_program_id, FALSE),
           AccountMeta_new_readonly(token_program_id, FALSE) >>,
        <<1>>)

(***************************************************************************)
(* mint_instruction.rs                                                     *)
(***************************************************************************)
\* MINT_GM_DISCRIMINATOR holding the tag of another name, sha256("global:mint")[0..8]
MINT_GM_DISCRIMINATOR_other_name == <<51, 57, 225, 47, 182, 146, 137, 166>>

MINT_GM_DISCRIMINATOR == <<117, 223, 58, 111, 44, 36, 16, 43>>

MINT_AUTHORITY_SEED == "mint_authority"

MINTER_ROLE_GMTOKEN_SEED == "MinterRoleGMToken"

ORACLE_SANITY_CHECK_SEED == "sanity_check"

USDON_MANAGER_STATE_SEED == "usdon_manager"

build_mock_mint_gm_instruction(gm_token_mint, destination_owner, amount) ==
    LET program_id == ondo_gm_program_id
        minter == admin_minter
        token_program == token_2022_program_id
        authority_role_account ==
            find_program_address(<<MINTER_ROLE_GMTOKEN_SEED, minter>>, program_id)
        oracle_sanity_check ==
            find_program_address(<<ORACLE_SANITY_CHECK_SEED, gm_token_mint>>, program_id)
        mint_authority == find_program_address(<<MINT_AUTHORITY_SEED>>, program_id)
        usdon_manager_state == find_program_address(<<USDON_MANAGER_STATE_SEED>>, program_id)
        destination_ata ==
            get_associated_token_address_with_program_id(
                destination_owner, gm_token_mint, token_program)
        data == MINT_GM_DISCRIMINATOR \o u64_to_le_bytes(amount)
        accounts ==
            << AccountMeta_new(minter, TRUE),
               AccountMeta_new_readonly(minter, TRUE),
               AccountMeta_new_readonly(destination_owner, FALSE),
               AccountMeta_new_readonly(authority_role_account, FALSE),
               AccountMeta_new(oracle_sanity_check, FALSE),
               AccountMeta_new_readonly(mint_authority, FALSE),
               AccountMeta_new(gm_token_mint, FALSE),
               AccountMeta_new(destination_ata, FALSE),
               AccountMeta_new_readonly(usdon_manager_state, FALSE),
               AccountMeta_new_readonly(token_program, FALSE),
               AccountMeta_new_readonly(spl_associated_token_account_id, FALSE),
               AccountMeta_new_readonly(system_program_id, FALSE) >>
    IN  Instruction(program_id, accounts, data)

\* build_mock_mint_gm_instruction_with_ata deriving the destination from the owner
build_mock_mint_gm_instruction_with_ata_derived(gm_token_mint, destination_ata, destination_owner, amount) ==
    build_mock_mint_gm_instruction(gm_token_mint, destination_owner, amount)

build_mock_mint_gm_instruction_with_ata(gm_token_mint, destination_ata, destination_owner, amount) ==
    LET program_id == ondo_gm_program_id
        minter == admin_minter
        token_program == token_2022_program_id
        authority_role_account ==
            find_program_address(<<MINTER_ROLE_GMTOKEN_SEED, minter>>, program_id)
        oracle_sanity_check ==
            find_program_address(<<ORACLE_SANITY_CHECK_SEED, gm_token_mint>>, program_id)
        mint_authority == find_program_address(<<MINT_AUTHORITY_SEED>>, program_id)
        usdon_manager_state == find_program_address(<<USDON_MANAGER_STATE_SEED>>, program_id)
        data == MINT_GM_DISCRIMINATOR \o u64_to_le_bytes(amount)
        accounts ==
            << AccountMeta_new(minter, TRUE),
               AccountMeta_new_readonly(minter, TRUE),
               AccountMeta_new_readonly(destination_owner, FALSE),
               AccountMeta_new_readonly(authority_role_account, FALSE),
               AccountMeta_new(oracle_sanity_check, FALSE),
               AccountMeta_new_readonly(mint_authority, FALSE),
               AccountMeta_new(gm_token_mint, FALSE),
               AccountMeta_new(destination_ata, FALSE),
               AccountMeta_new_readonly(usdon_manager_state, FALSE),
               AccountMeta_new_readonly(token_program, FALSE),
               AccountMeta_new_readonly(spl_associated_token_account_id, FALSE),
               AccountMeta_new_readonly(system_program_id, FALSE) >>
    IN  Instruction(program_id, accounts, data)

get_gm_token_ata(owner, gm_token_mint) ==
    get_associated_token_address_with_program_id(owner, gm_token_mint, token_2022_program_id)

(***************************************************************************)
(* Inputs: the messages a call is made on.                                 *)
(***************************************************************************)
\* the account-key table of the message; an index of Len(Keys) is past its end
Keys ==
    << "user", "solver1", "solver2", "other_maker", "jupiter", "aaplon", "aalon",
       "usdc", "other_token", "ata_a", "ata_b", "token22" >>

\* the zero-based position of address k in Keys
KeyIdx(k) == (CHOOSE i \in 1..Len(Keys) : Keys[i] = k) - 1

PastEnd == Len(Keys)

\* payload of a fill, as the tests build it: tag, input amount, output amount, expire_at
FillData(input_amount, output_amount, expire_at) ==
    instruction_discriminator("fill") \o to_le_bytes(input_amount, 8)
        \o to_le_bytes(output_amount, 8) \o to_le_bytes(expire_at, 8)

DataA == FillData(200000000, 1500000000, 1704067200)

DataB == FillData(100000000, 750000000, 1) \o <<7, 7, 7, 7, 7, 7, 7, 7>>

\* the largest amount (2^64 - 1) with the least expiry (i64::MIN)
DataMax ==
    instruction_discriminator("fill") \o to_le_bytes(200000000, 8)
        \o <<255, 255, 255, 255, 255, 255, 255, 255>> \o <<0, 0, 0, 0, 0, 0, 0, 128>>

\* a zero amount with an expiry of -1, one second before the epoch
DataZero ==
    instruction_discriminator("fill") \o to_le_bytes(200000000, 8)
        \o <<0, 0, 0, 0, 0, 0, 0, 0>> \o <<255, 255, 255, 255, 255, 255, 255, 255>>

\* DataA with byte i of the tag changed
BadTag(i) == [DataA EXCEPT ![i] = (DataA[i] + 1) % 256]

\* the account list of a fill in the layout of parser.rs account_indices, by key position
Accounts(taker, maker, maker_output_ata, input_mint, output_mint) ==
    << taker, maker, KeyIdx("ata_b"), KeyIdx("ata_b"), KeyIdx("ata_b"), maker_output_ata,
       input_mint, KeyIdx("token22"), output_mint >>

Buy == Accounts(KeyIdx("user"), KeyIdx("solver1"), KeyIdx("ata_a"), KeyIdx("usdc"), KeyIdx("aaplon"))

Buy2 == Accounts(KeyIdx("solver1"), KeyIdx("solver2"), KeyIdx("ata_b"), KeyIdx("usdc"), KeyIdx("aalon"))

UnauthorizedBuy ==
    Accounts(KeyIdx("user"), KeyIdx("other_maker"), KeyIdx("ata_a"), KeyIdx("usdc"), KeyIdx("aaplon"))

Sell == Accounts(KeyIdx("user"), KeyIdx("solver1"), KeyIdx("ata_a"), KeyIdx("aaplon"), KeyIdx("usdc"))

OtherToken ==
    Accounts(KeyIdx("user"), KeyIdx("solver1"), KeyIdx("ata_a"), KeyIdx("usdc"), KeyIdx("other_token"))

UnauthorizedSell ==
    Accounts(KeyIdx("user"), KeyIdx("other_maker"), KeyIdx("ata_a"), KeyIdx("aaplon"), KeyIdx("usdc"))

\* account lists of fills whose payload is complete
AccountLists ==
    { Buy, UnauthorizedBuy, Sell, OtherToken, UnauthorizedSell,
      <<>>, SubSeq(Buy, 1, 1), SubSeq(Buy, 1, 5), SubSeq(Buy, 1, 8),
      [Buy EXCEPT ![MAKER + 1] = PastEnd],
      [Buy EXCEPT ![TAKER + 1] = PastEnd],
      [Buy EXCEPT ![MAKER_OUTPUT_ATA + 1] = PastEnd],
      [Buy EXCEPT ![OUTPUT_MINT + 1] = PastEnd],
      [UnauthorizedBuy EXCEPT ![OUTPUT_MINT + 1] = PastEnd],
      SubSeq([Buy EXCEPT ![MAKER + 1] = PastEnd], 1, 5) }

CompiledInstruction(program_id_index, accounts, data) ==
    [program_id_index |-> program_id_index, accounts |-> accounts, data |-> data]

\* instructions that are Jupiter fills by program and tag
FillInstructions ==
    { CompiledInstruction(KeyIdx("jupiter"), a, DataA) : a \in AccountLists }
    \cup { CompiledInstruction(KeyIdx("jupiter"), Buy2, DataB),
            CompiledInstruction(KeyIdx("jupiter"), Buy, DataMax),
            CompiledInstruction(KeyIdx("jupiter"), Buy, DataZero),
            CompiledInstruction(KeyIdx("jupiter"), Buy, SubSeq(DataA, 1, 8)),
            CompiledInstruction(KeyIdx("jupiter"), Buy, SubSeq(DataA, 1, 31)),
            CompiledInstruction(KeyIdx("jupiter"), UnauthorizedBuy, SubSeq(DataA, 1, 31)),
            CompiledInstruction(KeyIdx("jupiter"), [Buy EXCEPT ![OUTPUT_MINT + 1] = PastEnd],
                                SubSeq(DataA, 1, 31)),
            CompiledInstruction(KeyIdx("jupiter"), <<PastEnd>>, DataA),
            CompiledInstruction(KeyIdx("jupiter"), <<PastEnd, KeyIdx("solver1")>>, DataA),
            CompiledInstruction(KeyIdx("jupiter"),
                                SubSeq([Buy EXCEPT ![MAKER_OUTPUT_ATA + 1] = PastEnd], 1, 8),
                                DataA) }

\* instructions that are not: another program, a program index past the table,
\* a payload shorter than the tag, a tag that differs in its first, a middle or its last byte
OtherInstructions ==
    { CompiledInstruction(p, Buy, DataA) : p \in {KeyIdx("token22"), PastEnd} }
    \cup { CompiledInstruction(KeyIdx("jupiter"), Buy, d) : d \in {<<>>, SubSeq(DataA, 1, 7)} }
    \cup { CompiledInstruction(KeyIdx("jupiter"), Buy, BadTag(i)) : i \in {1, 4, 8} }

Instructions == FillInstructions \cup OtherInstructions

RECURSIVE SeqsUpTo(_, _)
\* the sequences over S of length at most n
SeqsUpTo(S, n) ==
    IF n = 0 THEN {<<>>}
    ELSE LET shorter == SeqsUpTo(S, n - 1)
         IN  shorter \cup {Append(q, x) : q \in {r \in shorter : Len(r) = n - 1}, x \in S}

(***************************************************************************)
(* solana_sdk Message and Transaction, as build_mock_mint_transaction      *)
(* makes them.                                                             *)
(***************************************************************************)
RECURSIVE account_metas(_)
\* every account reference of the instructions, each followed by its program id
account_metas(ixs) ==
    IF Len(ixs) = 0 THEN <<>>
    ELSE Head(ixs).accounts \o <<AccountMeta_new_readonly(Head(ixs).program_id, FALSE)>>
             \o account_metas(Tail(ixs))

\* the sequence without repeated elements, each at its first position
unique(keys) ==
    LET first(i) == \A j \in 1..(i - 1) : keys[j] # keys[i]
        at == SelectSeq([i \in 1..Len(keys) |-> i], first)
    IN  [n \in 1..Len(at) |-> keys[at[n]]]

\* zero-based position of key in keys
position(keys, key) == (CHOOSE i \in 1..Len(keys) : keys[i] = key) - 1

compile_instruction(ix, keys) ==
    CompiledInstruction(position(keys, ix.program_id),
                        [j \in 1..Len(ix.accounts) |-> position(keys, ix.accounts[j].pubkey)],
                        ix.data)

\* Message::new_with_blockhash(instructions, Some(payer), blockhash): each address
\* once, the payer first, then writable signers, read-only signers, writable
\* non-signers, read-only non-signers; an address is a signer (writable) when any
\* reference to it is; the instructions are compiled one for one, in their order
Message_new_with_blockhash(ixs, payer, blockhash) ==
    LET metas == <<AccountMeta_new(payer, TRUE)>> \o account_metas(ixs)
        keys == unique([i \in 1..Len(metas) |-> metas[i].pubkey])
        signer(k) == \E i \in 1..Len(metas) : metas[i].pubkey = k /\ metas[i].is_signer
        writable(k) == \E i \in 1..Len(metas) : metas[i].pubkey = k /\ metas[i].is_writable
        pick(sg, wr) == SelectSeq(keys, LAMBDA k : signer(k) = sg /\ writable(k) = wr)
        writable_signers == pick(TRUE, TRUE)
        readonly_signers == pick(TRUE, FALSE)
        writable_non_signers == pick(FALSE, TRUE)
        readonly_non_signers == pick(FALSE, FALSE)
        account_keys_ == writable_signers \o readonly_signers
                             \o writable_non_signers \o readonly_non_signers
    IN  [ header |->
              [ num_required_signatures |-> Len(writable_signers) + Len(readonly_signers),
                num_readonly_signed_accounts |-> Len(readonly_signers),
                num_readonly_unsigned_accounts |-> Len(readonly_non_signers) ],
          account_keys |-> account_keys_,
          recent_blockhash |-> blockhash,
          instructions |-> [i \in 1..Len(ixs) |-> compile_instruction(ixs[i], account_keys_)] ]

\* Signature::default(): 64 zero bytes
Signature_default == [i \in 1..64 |-> 0]

\* Transaction::new_unsigned(message): one default signature per required signer
Transaction_new_unsigned(message) ==
    [ signatures |-> [i \in 1..message.header.num_required_signatures |-> Signature_default],
      message |-> message ]

(***************************************************************************)
(* simulator.rs: the builders                                              *)
(***************************************************************************)
\* build_mock_mint_transaction with the mint placed before the four creates
build_mock_mint_transaction_mint_first(info, recent_blockhash) ==
    Transaction_new_unsigned(
        Message_new_with_blockhash(
            << build_mock_mint_gm_instruction(
                   info.gm_token_mint, info.maker, info.gm_token_amount),
               create_associated_token_account_idempotent(
                   admin_minter, info.taker, info.gm_token_mint, token_2022_program_id),
               create_associated_token_account_idempotent(
                   admin_minter, info.maker, info.gm_token_mint, token_2022_program_id),
               create_associated_token_account_idempotent(
                   admin_minter, info.taker, usdc_mint, spl_token_program_id),
               create_associated_token_account_idempotent(
                   admin_minter, info.maker, usdc_mint, spl_token_program_id) >>,
            admin_minter, recent_blockhash))

\* build_mock_mint_transaction with the taker's GM account create and the mint only
build_mock_mint_transaction_two(info, recent_blockhash) ==
    Transaction_new_unsigned(
        Message_new_with_blockhash(
            << create_associated_token_account_idempotent(
                   admin_minter, info.taker, info.gm_token_mint, token_2022_program_id),
               build_mock_mint_gm_instruction(
                   info.gm_token_mint, info.maker, info.gm_token_amount) >>,
            admin_minter, recent_blockhash))

\* build_mock_mint_transaction creating the maker's GM account under the SPL Token program
build_mock_mint_transaction_spl_for_gm(info, recent_blockhash) ==
    Transaction_new_unsigned(
        Message_new_with_blockhash(
            << create_associated_token_account_idempotent(
                   admin_minter, info.taker, info.gm_token_mint, token_2022_program_id),
               create_associated_token_account_idempotent(
                   admin_minter, info.maker, info.gm_token_mint, spl_token_program_id),
               create_associated_token_account_idempotent(
                   admin_minter, info.taker, usdc_mint, spl_token_program_id),
               create_associated_token_account_idempotent(
                   admin_minter, info.maker, usdc_mint, spl_token_program_id),
               build_mock_mint_gm_instruction(
                   info.gm_token_mint, info.maker, info.gm_token_amount) >>,
            admin_minter, recent_blockhash))

build_mock_mint_transaction(info, recent_blockhash) ==
    LET token_program == token_2022_program_id
        minter == admin_minter
        create_taker_gm_ata_ix ==
            create_associated_token_account_idempotent(
                minter, info.taker, info.gm_token_mint, token_program)
        create_maker_gm_ata_ix ==
            create_associated_token_account_idempotent(
                minter, info.maker, info.gm_token_mint, token_program)
        create_taker_usdc_ata_ix ==
            create_associated_token_account_idempotent(
                minter, info.taker, usdc_mint, spl_token_program_id)
        create_maker_usdc_ata_ix ==
            create_associated_token_account_idempotent(
                minter, info.maker, usdc_mint, spl_token_program_id)
        mint_ix ==
            build_mock_mint_gm_instruction(info.gm_token_mint, info.maker, info.gm_token_amount)
        message ==
            Message_new_with_blockhash(
                << create_taker_gm_ata_ix, create_maker_gm_ata_ix,
                   create_taker_usdc_ata_ix, create_maker_usdc_ata_ix, mint_ix >>,
                minter, recent_blockhash)
    IN  Transaction_new_unsigned(message)

build_mock_mint_instruction(info) ==
    build_mock_mint_gm_instruction(info.gm_token_mint, info.maker, info.gm_token_amount)

build_mock_mint_instruction_to_ata(info) ==
    build_mock_mint_gm_instruction_with_ata(
        info.gm_token_mint, info.maker_output_account, info.maker, info.gm_token_amount)

(***************************************************************************)
(* Inputs of the builders: GmTradeInfo values.  The struct's fields are    *)
(* public, so a caller can pass any value of each field; the values here   *)
(* include a taker equal to the maker, a maker equal to the admin minter   *)
(* and a GM mint equal to the USDC mint.                                   *)
(***************************************************************************)
\* amounts 0, 1 500 000 000, 0x0807060504030201, 2^63 and 2^64 - 1, as digits
Amounts ==
    { <<0, 0, 0, 0>>,
      <<12032, 22888, 0, 0>>,
      <<513, 1027, 1541, 2055>>,
      <<0, 0, 0, 32768>>,
      <<65535, 65535, 65535, 65535>> }

TradeInfos ==
    { [ maker |-> m, taker |-> t, gm_token_mint |-> g, gm_token_symbol |-> se[1],
        gm_token_amount |-> a, expire_at |-> se[2],
        maker_output_account |-> IF o = "derived" THEN get_gm_token_ata(m, g) ELSE o ] :
        m \in {"solver1", "admin_minter"},
        t \in {"user", "solver1"},
        g \in {"aaplon", "usdc"},
        a \in Amounts,
        o \in {"ata_a", "derived"},
        se \in { <<"AAPLon", <<128, 26002, 0, 0>> >>,
                 <<"GM", <<0, 0, 0, -32768>> >> } }

Hashes == {"hash_a", "hash_b"}

Pending == [pending |-> TRUE]

Init ==
    /\ account_keys = Keys
    /\ instructions \in SeqsUpTo(Instructions, MaxIx)
    /\ entry = "none"
    /\ variant = "none"
    /\ pc = "idle"
    /\ instruction = None
    /\ result = Pending
    /\ trade_info = None
    /\ hash = "hash_a"
    /\ prev = None

(***************************************************************************)
(* Entry points.                                                           *)
(***************************************************************************)
Enter(name, v) ==
    /\ pc = "idle"
    /\ entry' = name
    /\ variant' = v
    /\ pc' = "Start"
    /\ UNCHANGED <<prev, hash, trade_info, account_keys, instructions, instruction, result>>

\* check_gm_trade(&Transaction): the transaction's message is a legacy Message
check_gm_trade == Enter("check_gm_trade", "Legacy")

check_gm_trade_message == Enter("check_gm_trade_message", "Legacy")

\* check_gm_trade_versioned(&VersionedTransaction): its message is Legacy or V0
check_gm_trade_versioned ==
    \E v \in {"Legacy", "V0"} : Enter("check_gm_trade_versioned", v)

check_gm_trade_versioned_message ==
    \E v \in {"Legacy", "V0"} : Enter("check_gm_trade_versioned_message", v)

\* parse_fill_for_gm_trade called directly on instruction i of the message
call_parse_fill_for_gm_trade ==
    \E i \in 0..(Len(instructions) - 1) :
        /\ pc = "idle"
        /\ entry' = "parse_fill_for_gm_trade"
        /\ instruction' = Some(i)
        /\ pc' = "Extract"
        /\ UNCHANGED <<prev, hash, trade_info, account_keys, instructions, variant, result>>

(***************************************************************************)
(* check_gm_trade_message, step by step.                                   *)
(***************************************************************************)
\* a check returns r: to the caller of the entry point or, inside
\* maybe_build_mock_mint, an Ok value to the statement after `check_gm_trade(transaction)?`
Return(r) ==
    /\ result' = r
    /\ pc' = IF entry = "maybe_build_mock_mint" /\ r.ok THEN "Build" ELSE "done"

\* MessageCheckEmpty with the emptiness check left out
MessageCheckEmpty_dropped ==
    /\ pc = "Start" /\ variant = "Legacy"
    /\ pc' = "Classify"
    /\ UNCHANGED <<prev, hash, trade_info, account_keys, instructions, entry, variant, instruction, result>>

\* MessageCheckEmpty going straight to extraction from the first instruction
MessageCheckEmpty_no_classify ==
    /\ pc = "Start" /\ variant = "Legacy"
    /\ IF Len(instructions) = 0
       THEN Return(Err([kind |-> "EmptyTransaction"])) /\ UNCHANGED instruction
       ELSE instruction' = Some(0) /\ pc' = "Extract" /\ UNCHANGED result
    /\ UNCHANGED <<prev, hash, trade_info, account_keys, instructions, entry, variant>>

\* Check 1: must have at least one instruction
MessageCheckEmpty ==
    /\ pc = "Start" /\ variant = "Legacy"
    /\ IF Len(instructions) = 0
       THEN Return(Err([kind |-> "EmptyTransaction"]))
       ELSE pc' = "Classify" /\ UNCHANGED result
    /\ UNCHANGED <<prev, hash, trade_info, account_keys, instructions, entry, variant, instruction>>

\* Check 2: find the Jupiter Order Engine fill instruction
MessageFindFill ==
    /\ pc = "Classify" /\ variant = "Legacy"
    /\ LET fill_instruction ==
               find_fill(instructions, jupiter_order_engine_program_id, account_keys)
       IN  IF ~fill_instruction.some
           THEN Return(Ok(not_gm_trade)) /\ UNCHANGED instruction
           ELSE instruction' = fill_instruction /\ pc' = "Extract" /\ UNCHANGED result
    /\ UNCHANGED <<prev, hash, trade_info, account_keys, instructions, entry, variant>>

\* Check 3 & 4: parse and validate
\* MessageParse going on to the later fills when the first yields no trade
MessageParse_fall_through ==
    /\ pc = "Extract" /\ variant = "Legacy" /\ entry # "parse_fill_for_gm_trade"
    /\ LET good == {i \in (instruction.v + 1)..Len(instructions) :
                       /\ is_jupiter_fill_instruction(
                              instructions[i], jupiter_order_engine_program_id, account_keys)
                       /\ parse_fill_for_gm_trade(instructions[i], account_keys).ok
                       /\ parse_fill_for_gm_trade(instructions[i], account_keys).val.some}
       IN  IF good = {}
           THEN Return(check_parsed(
                    parse_fill_for_gm_trade(instructions[instruction.v + 1], account_keys)))
           ELSE Return(check_parsed(parse_fill_for_gm_trade(
                    instructions[CHOOSE i \in good : \A j \in good : i <= j], account_keys)))
    /\ UNCHANGED <<prev, hash, trade_info, account_keys, instructions, entry, variant, instruction>>

MessageParse ==
    /\ pc = "Extract" /\ variant = "Legacy" /\ entry # "parse_fill_for_gm_trade"
    /\ Return(check_parsed(
           parse_fill_for_gm_trade(instructions[instruction.v + 1], account_keys)))
    /\ UNCHANGED <<prev, hash, trade_info, account_keys, instructions, entry, variant, instruction>>

(***************************************************************************)
(* The V0 arm of check_gm_trade_versioned_message: the same steps over the *)
(* message's static account keys.                                          *)
(***************************************************************************)
V0CheckEmpty ==
    /\ pc = "Start" /\ variant = "V0"
    /\ IF Len(instructions) = 0
       THEN Return(Err([kind |-> "EmptyTransaction"]))
       ELSE pc' = "Classify" /\ UNCHANGED result
    /\ UNCHANGED <<prev, hash, trade_info, account_keys, instructions, entry, variant, instruction>>

\* V0FindFill selecting the last fill of the message
V0FindFill_last ==
    /\ pc = "Classify" /\ variant = "V0"
    /\ LET fill_instruction ==
               find_last_fill(instructions, jupiter_order_engine_program_id, account_keys)
       IN  IF ~fill_instruction.some
           THEN Return(Ok(not_gm_trade)) /\ UNCHANGED instruction
           ELSE instruction' = fill_instruction /\ pc' = "Extract" /\ UNCHANGED result
    /\ UNCHANGED <<prev, hash, trade_info, account_keys, instructions, entry, variant>>

V0FindFill ==
    /\ pc = "Classify" /\ variant = "V0"
    /\ LET fill_instruction ==
               find_fill(instructions, jupiter_order_engine_program_id, account_keys)
       IN  IF ~fill_instruction.some
           THEN Return(Ok(not_gm_trade)) /\ UNCHANGED instruction
           ELSE instruction' = fill_instruction /\ pc' = "Extract" /\ UNCHANGED result
    /\ UNCHANGED <<prev, hash, trade_info, account_keys, instructions, entry, variant>>

V0Parse ==
    /\ pc = "Extract" /\ variant = "V0"
    /\ Return(check_parsed(
           parse_fill_for_gm_trade(instructions[instruction.v + 1], account_keys)))
    /\ UNCHANGED <<prev, hash, trade_info, account_keys, instructions, entry, variant, instruction>>

\* the direct call of parse_fill_for_gm_trade returns
ParseReturn ==
    /\ pc = "Extract" /\ entry = "parse_fill_for_gm_trade"
    /\ Return(parse_fill_for_gm_trade(instructions[instruction.v + 1], account_keys))
    /\ UNCHANGED <<prev, hash, trade_info, account_keys, instructions, entry, variant, instruction>>

Next ==
    \/ check_gm_trade
    \/ check_gm_trade_message
    \/ check_gm_trade_versioned
    \/ check_gm_trade_versioned_message
    \/ call_parse_fill_for_gm_trade
    \/ MessageCheckEmpty
    \/ MessageFindFill
    \/ MessageParse
    \/ V0CheckEmpty
    \/ V0FindFill
    \/ V0Parse
    \/ ParseReturn

Spec == Init /\ [][Next]_vars

\* the steps inside a called function: the code is sequential and runs to its return
Step ==
    \/ MessageCheckEmpty
    \/ MessageFindFill
    \/ MessageParse
    \/ V0CheckEmpty
    \/ V0FindFill
    \/ V0Parse
    \/ ParseReturn

\* a function that was called keeps running until it returns
FairSpec == Spec /\ WF_vars(Step)

(***************************************************************************)
(* The builders, each called once on a GmTradeInfo.                        *)
(***************************************************************************)
BuildInit ==
    /\ trade_info \in {Some(info) : info \in TradeInfos}
    /\ account_keys = <<>>
    /\ instructions = <<>>
    /\ entry = "none"
    /\ variant = "none"
    /\ pc = "idle"
    /\ instruction = None
    /\ result = Pending
    /\ hash = "hash_a"
    /\ prev = None

\* the call of builder name returns value
Built(name, value) ==
    /\ pc = "idle"
    /\ trade_info.some
    /\ entry' = name
    /\ result' = value
    /\ pc' = "done"
    /\ UNCHANGED <<prev, hash, trade_info, account_keys, instructions, variant, instruction>>

call_build_mock_mint_transaction ==
    \E recent_blockhash \in Hashes :
        Built("build_mock_mint_transaction",
              build_mock_mint_transaction(trade_info.v, recent_blockhash))

call_build_mock_mint_instruction ==
    Built("build_mock_mint_instruction", build_mock_mint_instruction(trade_info.v))

call_build_mock_mint_instruction_to_ata ==
    Built("build_mock_mint_instruction_to_ata", build_mock_mint_instruction_to_ata(trade_info.v))

\* build_mock_mint_gm_instruction called directly, the owner being the trade's taker
call_build_mock_mint_gm_instruction ==
    Built("build_mock_mint_gm_instruction",
          build_mock_mint_gm_instruction(
              trade_info.v.gm_token_mint, trade_info.v.taker, trade_info.v.gm_token_amount))

\* build_mock_mint_gm_instruction_with_ata called directly, the owner being the
\* trade's taker and the destination the trade's maker_output_account
call_build_mock_mint_gm_instruction_with_ata ==
    Built("build_mock_mint_gm_instruction_with_ata",
          build_mock_mint_gm_instruction_with_ata(
              trade_info.v.gm_token_mint, trade_info.v.maker_output_account,
              trade_info.v.taker, trade_info.v.gm_token_amount))

BuildNext ==
    \/ call_build_mock_mint_transaction
    \/ call_build_mock_mint_instruction
    \/ call_build_mock_mint_instruction_to_ata
    \/ call_build_mock_mint_gm_instruction
    \/ call_build_mock_mint_gm_instruction_with_ata

BuildSpec == BuildInit /\ [][BuildNext]_vars

(***************************************************************************)
(* Vocabulary of the properties, stated on the message itself.             *)
(***************************************************************************)
AllowList == {AUTHORIZED_SOLVERS[i] : i \in 1..Len(AUTHORIZED_SOLVERS)}

RecognizedMints == {GM_TOKENS[i][2] : i \in 1..Len(GM_TOKENS)}

FillTag == <<168, 96, 183, 163, 92, 10, 40, 160>>

CheckEntries ==
    { "check_gm_trade", "check_gm_trade_message",
      "check_gm_trade_versioned", "check_gm_trade_versioned_message" }

\* ix has the wire format of a Jupiter fill: program id and 8-byte tag
WireFill(ix) ==
    /\ ix.program_id_index < Len(account_keys)
    /\ Base58[account_keys[ix.program_id_index + 1]] = JUPITER_ORDER_ENGINE_PROGRAM_ID
    /\ Len(ix.data) >= 8
    /\ \A i \in 1..8 : ix.data[i] = FillTag[i]

\* one-based positions of the instructions in fill wire format
WireFillAt == {i \in 1..Len(instructions) : WireFill(instructions[i])}

FirstWireFill == LET at == WireFillAt IN CHOOSE i \in at : \A j \in at : i <= j

\* a call has returned and extraction was (or would be) applied to an instruction
HasSubject ==
    /\ pc = "done"
    /\ \/ entry \in CheckEntries /\ WireFillAt # {}
       \/ entry = "parse_fill_for_gm_trade"

\* the instruction extraction is applied to: the argument of a direct
\* parse_fill_for_gm_trade call, the first fill of the message for a check
Subject ==
    IF entry = "parse_fill_for_gm_trade" THEN instructions[instruction.v + 1]
    ELSE instructions[FirstWireFill]

SlotState(ix, s) ==
    IF s >= Len(ix.accounts) THEN "absent"
    ELSE IF ix.accounts[s + 1] >= Len(account_keys) THEN "past_end"
    ELSE "resolved"

SlotKey(ix, s) == account_keys[ix.accounts[s + 1] + 1]

SlotsResolve(ix) == \A s \in {0, 1, 5, 8} : SlotState(ix, s) = "resolved"

\* a fill that passes the length check and whose four slots resolve
WellFormedFill(ix) == WireFill(ix) /\ Len(ix.data) >= 32 /\ SlotsResolve(ix)

\* the GmTradeInfo a finished call returned, if any
ReturnedInfo ==
    IF pc = "done" /\ result.ok
    THEN IF entry = "parse_fill_for_gm_trade" THEN result.val ELSE result.val.trade_info
    ELSE [some |-> FALSE]

\* the finished call returned the not-a-GM-trade verdict
ReturnedNotGm ==
    /\ pc = "done" /\ result.ok
    /\ IF entry = "parse_fill_for_gm_trade" THEN result.val = [some |-> FALSE]
       ELSE result.val = [use_gm_bundle_sim |-> FALSE, trade_info |-> [some |-> FALSE]]

ReturnedErr(kind) == pc = "done" /\ ~result.ok /\ result.err.kind = kind

(***************************************************************************)
(* C1  Authorization gate: a call whose extracted instruction is a         *)
(* well-formed fill (wire format, at least 32 payload bytes, slots 0, 1, 5 *)
(* and 8 resolvable) with a maker outside the allow-list returns           *)
(* Err(UnauthorizedMaker(maker)) with exactly that maker, from             *)
(* parse_fill_for_gm_trade and from every check_gm_trade* entry point,     *)
(* whatever the other fields are.                                          *)
(***************************************************************************)
C1_AuthorizationGate ==
    HasSubject =>
        LET ix == Subject
        IN  (WellFormedFill(ix) /\ Base58[SlotKey(ix, 1)] \notin AllowList)
                => result = [ok |-> FALSE,
                             err |-> [kind |-> "UnauthorizedMaker", pubkey |-> SlotKey(ix, 1)]]

\* an unauthorized maker selling a GM token (output mint not a GM token), through the V0 arm
C1_Witness ==
    /\ HasSubject /\ WellFormedFill(Subject)
    /\ entry = "check_gm_trade_versioned" /\ variant = "V0"
    /\ Base58[SlotKey(Subject, 1)] \notin AllowList
    /\ Base58[SlotKey(Subject, 8)] \notin RecognizedMints
    /\ ReturnedErr("UnauthorizedMaker")

(***************************************************************************)
(* C2  Every GmTradeInfo returned, by parse_fill_for_gm_trade or by a      *)
(* check_gm_trade* entry point, has its maker in the allow-list and its    *)
(* gm_token_mint in the GM token table.                                    *)
(***************************************************************************)
C2_TradeInfoMembership ==
    pc = "done" =>
        LET info == ReturnedInfo
        IN  info.some =>
                /\ Base58[info.v.maker] \in AllowList
                /\ Base58[info.v.gm_token_mint] \in RecognizedMints

C2_Witness ==
    /\ entry = "check_gm_trade" /\ ReturnedInfo.some
    /\ result.val.use_gm_bundle_sim
    /\ Len(instructions) = 2

(***************************************************************************)
(* C3  Non-target-asset pass-through: a well-formed fill with an           *)
(* authorized maker whose output mint (slot 8) is not a GM token gives the *)
(* not-a-GM-trade verdict (Ok, use_gm_bundle_sim = false, trade_info =     *)
(* None), never an error; also when the GM token is the input mint.        *)
(***************************************************************************)
C3_NonGmPassThrough ==
    HasSubject =>
        LET ix == Subject
        IN  ( /\ WellFormedFill(ix)
              /\ Base58[SlotKey(ix, 1)] \in AllowList
              /\ Base58[SlotKey(ix, 8)] \notin RecognizedMints )
                => ReturnedNotGm

\* a SELL: the GM token is the input mint at slot 6
C3_Witness ==
    /\ HasSubject /\ WellFormedFill(Subject) /\ entry = "check_gm_trade_message"
    /\ Base58[SlotKey(Subject, 1)] \in AllowList
    /\ Base58[SlotKey(Subject, 8)] \notin RecognizedMints
    /\ Base58[SlotKey(Subject, 6)] \in RecognizedMints
    /\ ReturnedNotGm

(***************************************************************************)
(* C4  A check returns Err(UnauthorizedMaker) only for a fill whose output *)
(* mint is a recognized GM token.                                          *)
(***************************************************************************)
C4_UnauthorizedOnlyForGm ==
    (entry \in CheckEntries /\ ReturnedErr("UnauthorizedMaker"))
        => /\ SlotState(Subject, 8) = "resolved"
           /\ Base58[SlotKey(Subject, 8)] \in RecognizedMints

(***************************************************************************)
(* C5  First-match semantics: when the list holds several instructions in  *)
(* fill format, a check extracts the first one in list order: it returns a *)
(* GmTradeInfo exactly when that first fill is a well-formed fill by an    *)
(* authorized maker for a GM token, and then maker, taker, mint, amount    *)
(* and expiry are those of the first fill; later fills change nothing.     *)
(***************************************************************************)
\* ix is a fill that qualifies as a GM trade
GmFill(ix) ==
    /\ WellFormedFill(ix)
    /\ Base58[SlotKey(ix, 1)] \in AllowList
    /\ Base58[SlotKey(ix, 8)] \in RecognizedMints

\* d is the 64-bit integer whose little-endian bytes are b: digit i of d splits
\* into bytes 2i-1 (low) and 2i (high) of b
DigitsOf(d, b) ==
    \A i \in 1..4 : /\ d[i] % 256 = b[2 * i - 1]
                     /\ (d[i] \div 256) % 256 = b[2 * i]

\* info carries the fields of fill ix
InfoOf(info, ix) ==
    /\ info.maker = SlotKey(ix, 1)
    /\ info.taker = SlotKey(ix, 0)
    /\ info.gm_token_mint = SlotKey(ix, 8)
    /\ info.maker_output_account = SlotKey(ix, 5)
    /\ DigitsOf(info.gm_token_amount, SubSeq(ix.data, 17, 24))
    /\ DigitsOf(info.expire_at, SubSeq(ix.data, 25, 32))

C5_FirstMatch ==
    (pc = "done" /\ entry \in CheckEntries /\ Cardinality(WireFillAt) >= 2)
        => LET first == FirstWireFill
               info == ReturnedInfo
           IN  /\ instruction = [some |-> TRUE, v |-> first - 1]
               /\ info.some <=> GmFill(instructions[first])
               /\ info.some => InfoOf(info.v, instructions[first])

\* two GM fills that differ in maker, taker, mint, amount and expiry
C5_Witness ==
    /\ pc = "done" /\ entry = "check_gm_trade_message" /\ Cardinality(WireFillAt) = 2
    /\ GmFill(instructions[1]) /\ GmFill(instructions[2])
    /\ instructions[1].accounts # instructions[2].accounts
    /\ SubSeq(instructions[1].data, 17, 32) # SubSeq(instructions[2].data, 17, 32)
    /\ ReturnedInfo.some
    /\ InfoOf(ReturnedInfo.v, instructions[1])
    /\ ~InfoOf(ReturnedInfo.v, instructions[2])

(***************************************************************************)
(* C6  Classifier correctness: when exactly one instruction of the list    *)
(* resolves to the Jupiter program and starts with the fill tag, a check   *)
(* selects that instruction, at whatever position and among whatever       *)
(* non-matching instructions, and extracts from it.                        *)
(***************************************************************************)
C6_UniqueFillSelected ==
    (pc \in {"Extract", "done"} /\ entry \in CheckEntries /\ Cardinality(WireFillAt) = 1)
        => LET only == FirstWireFill
               info == ReturnedInfo
           IN  /\ instruction = [some |-> TRUE, v |-> only - 1]
               /\ (pc = "done" /\ GmFill(instructions[only])) =>
                      info.some /\ InfoOf(info.v, instructions[only])

\* the only fill comes second, after an instruction of another program with the same payload
C6_Witness ==
    /\ pc = "done" /\ entry \in CheckEntries /\ WireFillAt = {2}
    /\ instructions[1].data = instructions[2].data
    /\ instruction = [some |-> TRUE, v |-> 1]
    /\ ReturnedInfo.some

(***************************************************************************)
(* C7  Classifier absence is not an error: on a non-empty list in which no *)
(* instruction matches (other program, program index past the account-key  *)
(* table, payload shorter than 8 bytes, tag differing in any byte) a check *)
(* returns Ok(not_gm_trade), never an Err.                                 *)
(***************************************************************************)
C7_NoMatchIsNotGm ==
    ( /\ pc = "done" /\ entry \in CheckEntries
      /\ Len(instructions) > 0 /\ WireFillAt = {} )
        => result = [ok |-> TRUE,
                     val |-> [use_gm_bundle_sim |-> FALSE, trade_info |-> [some |-> FALSE]]]

\* a program index past the table, and a tag wrong in its last byte only
C7_Witness ==
    /\ pc = "done" /\ entry \in CheckEntries /\ WireFillAt = {} /\ Len(instructions) = 2
    /\ instructions[1].program_id_index >= Len(account_keys)
    /\ instructions[2].program_id_index < Len(account_keys)
    /\ Base58[account_keys[instructions[2].program_id_index + 1]] = JUPITER_ORDER_ENGINE_PROGRAM_ID
    /\ Len(instructions[2].data) >= 8
    /\ SubSeq(instructions[2].data, 1, 7) = SubSeq(FillTag, 1, 7)
    /\ instructions[2].data[8] # FillTag[8]
    /\ ReturnedNotGm

(***************************************************************************)
(* C8  Empty instruction set: a check of a message (legacy or V0) with no  *)
(* instructions returns Err(EmptyTransaction); a check of a non-empty list *)
(* never does, so the error is distinct from the Ok(not_gm_trade) of a     *)
(* list without a fill.                                                    *)
(***************************************************************************)
C8_EmptyTransaction ==
    (pc = "done" /\ entry \in CheckEntries)
        => (Len(instructions) = 0 <=> result = [ok |-> FALSE, err |-> [kind |-> "EmptyTransaction"]])

C8_Witness ==
    /\ pc = "done" /\ entry = "check_gm_trade_versioned_message" /\ variant = "V0"
    /\ Len(instructions) = 0
    /\ ReturnedErr("EmptyTransaction")

(***************************************************************************)
(* C9  Short payload: extraction from an instruction in fill format whose  *)
(* payload has 8 to 31 bytes fails with InstructionParseError (no verdict, *)
(* no GmTradeInfo); with 32 bytes or more it never fails that way.         *)
(***************************************************************************)
C9_ShortPayload ==
    HasSubject =>
        LET ix == Subject
        IN  WireFill(ix) => (Len(ix.data) < 32 <=> ReturnedErr("InstructionParseError"))

\* 31 bytes, and a maker that is not authorized
C9_Witness ==
    /\ HasSubject /\ WireFill(Subject) /\ entry \in CheckEntries
    /\ Len(Subject.data) = 31
    /\ Base58[SlotKey(Subject, 1)] \notin AllowList
    /\ ReturnedErr("InstructionParseError")

(***************************************************************************)
(* C10  Account-slot resolution: extraction resolves slots 1 (maker),      *)
(* 0 (taker), 5 (maker output account) and 8 (output mint) of the          *)
(* instruction's account list.  When one of them does not resolve, the     *)
(* result is an error decided by the first that fails:                     *)
(* Err(InvalidAccountIndex) when the instruction has no entry at that      *)
(* position, Err(MissingAccount) when the entry indexes past the end of    *)
(* the account-key table; no GmTradeInfo and no not-GM verdict is          *)
(* produced.  When all four resolve, neither error is returned.            *)
(***************************************************************************)
SlotOrder == <<1, 0, 5, 8>>

\* the position in SlotOrder of the first slot that does not resolve
FirstUnresolved(ix) ==
    CHOOSE n \in 1..4 :
        /\ SlotState(ix, SlotOrder[n]) # "resolved"
        /\ \A m \in 1..(n - 1) : SlotState(ix, SlotOrder[m]) = "resolved"

IsU64(d) == \A i \in 1..4 : d[i] \in 0..65535

IsI64(d) == (\A i \in 1..3 : d[i] \in 0..65535) /\ d[4] \in -32768..32767

C11_FieldDecoding ==
    (pc = "done" /\ HasSubject)
        => LET info == ReturnedInfo
               ix == Subject
           IN  info.some
                   => /\ IsU64(info.v.gm_token_amount)
                      /\ DigitsOf(info.v.gm_token_amount, SubSeq(ix.data, 17, 24))
                      /\ IsI64(info.v.expire_at)
                      /\ DigitsOf(info.v.expire_at, SubSeq(ix.data, 25, 32))
                      /\ (info.v.expire_at[4] < 0) = (ix.data[32] >= 128)

\* a trade of 2^64 - 1 tokens that expires at i64::MIN is returned as it is
C11_Witness ==
    /\ pc = "done"
    /\ HasSubject
    /\ ReturnedInfo.some
    /\ Subject.data = DataMax
    /\ ReturnedInfo.v.gm_token_amount = <<65535, 65535, 65535, 65535>>
    /\ ReturnedInfo.v.expire_at = <<0, 0, 0, -32768>>

(***************************************************************************)
(* C12: a classification call on a non-empty instruction list goes         *)
(* Start -> Classify -> {NoMatch | Extract -> {Rejected | NotGmTrade |     *)
(* GmTrade}}: Extract is entered only from Classify and only when the list *)
(* holds a fill; the call ends in exactly one of the four outcomes; an     *)
(* ended call takes no further step; only GmTrade carries a trade info.    *)
(***************************************************************************)
\* the terminal outcome of the state reached by the step, "" when it is not terminal
OutcomeNext ==
    IF pc' # "done" THEN ""
    ELSE IF ~result'.ok THEN "Rejected"
    ELSE IF result'.val.trade_info.some /\ result'.val.use_gm_bundle_sim THEN "GmTrade"
    ELSE IF ~result'.val.trade_info.some /\ ~result'.val.use_gm_bundle_sim
    THEN (IF pc = "Classify" THEN "NoMatch" ELSE "NotGmTrade")
    ELSE "other"

C12_Transition ==
    entry' \in CheckEntries
        => /\ pc = "idle" => pc' = "Start"
           /\ (pc = "Start" /\ Len(instructions) > 0) => pc' = "Classify"
           /\ pc = "Classify"
                  => \/ OutcomeNext = "NoMatch" /\ WireFillAt = {}
                     \/ pc' = "Extract" /\ WireFillAt # {}
           /\ pc' = "Extract" => pc = "Classify"
           /\ pc = "Extract" => OutcomeNext \in {"Rejected", "NotGmTrade", "GmTrade"}
           /\ pc # "done"

C12_FacadeStateMachine ==
    /\ [][C12_Transition]_vars
    /\ (pc = "Start" /\ entry \in CheckEntries) ~> (pc = "done")

\* a call that went through Classify and Extract and ended in GmTrade
C12_Witness ==
    /\ pc = "done"
    /\ entry \in CheckEntries
    /\ Len(instructions) > 0
    /\ instruction.some
    /\ result.ok
    /\ result.val.trade_info.some

(***************************************************************************)
(* C13: in every GmCheckResult returned by the four check entry points,    *)
(* use_gm_bundle_sim is true exactly when trade_info is Some.              *)
(***************************************************************************)
C13_FlagIffTradeInfo ==
    (pc = "done" /\ entry \in CheckEntries /\ result.ok)
        => (result.val.use_gm_bundle_sim = TRUE) = (result.val.trade_info # [some |-> FALSE])

\* a V0 call returned a result with the flag on and a trade info
C13_Witness ==
    /\ pc = "done"
    /\ entry \in CheckEntries
    /\ variant = "V0"
    /\ result.ok
    /\ result.val.use_gm_bundle_sim
    /\ result.val.trade_info.some

(***************************************************************************)
(* C14: check_gm_trade returns use_gm_bundle_sim = true only for a         *)
(* transaction whose message contains exactly one instruction, that        *)
(* instruction being a Jupiter Order Engine fill with an authorized maker  *)
(* and a GM output mint.                                                   *)
(***************************************************************************)
\* check_gm_trade returned a result with the flag on
QualifiedByCheckGmTrade ==
    /\ pc = "done"
    /\ entry = "check_gm_trade"
    /\ result.ok
    /\ result.val.use_gm_bundle_sim

BuiltTransaction == pc = "done" /\ entry = "build_mock_mint_transaction"

\* the address instruction i of the built transaction refers to in account slot s
TxAccount(i, s) ==
    result.message.account_keys[result.message.instructions[i].accounts[s + 1] + 1]

\* the program instruction i of the built transaction invokes
TxProgram(i) ==
    result.message.account_keys[result.message.instructions[i].program_id_index + 1]

(***************************************************************************)
(* C15: build_mock_mint_transaction emits exactly 5 instructions for every *)
(* GmTradeInfo, whatever the amount, symbol and expiry, and also when      *)
(* addresses coincide (taker = maker, maker = admin minter, GM mint = USDC *)
(* mint).                                                                  *)
(***************************************************************************)
C15_FiveInstructions ==
    BuiltTransaction => Len(result.message.instructions) = 5

\* a transaction built for a trade whose taker is its maker and whose GM mint is
\* the USDC mint
C15_Witness ==
    /\ BuiltTransaction
    /\ trade_info.v.taker = trade_info.v.maker
    /\ Base58[trade_info.v.gm_token_mint] = USDC_MINT
    /\ Len(result.message.instructions) = 5

(***************************************************************************)
(* C16: the five instructions of the built transaction are, in this order, *)
(* the idempotent associated-account creates for (taker, GM mint),         *)
(* (maker, GM mint), (taker, USDC), (maker, USDC), then the mint_gm        *)
(* instruction, whose user is the maker, whose mint is the trade's         *)
(* gm_token_mint and whose encoded amount is gm_token_amount; the mint     *)
(* never stands before a create.                                           *)
(***************************************************************************)
MintGmTag == <<117, 223, 58, 111, 44, 36, 16, 43>>

\* instruction i of the built transaction is the idempotent create of the
\* associated account of (wallet, mint), paid by the admin minter
IsCreate(i, wallet, mint) ==
    /\ Base58[TxProgram(i)] = ASSOCIATED_TOKEN_PROGRAM_ID
    /\ result.message.instructions[i].data = <<1>>
    /\ Len(result.message.instructions[i].accounts) = 6
    /\ Base58[TxAccount(i, 0)] = ADMIN_MINTER
    /\ TxAccount(i, 2) = wallet
    /\ Base58[TxAccount(i, 3)] = mint

\* instruction i of the built transaction is a mint_gm of the Ondo GM program
IsMintGm(i) ==
    /\ Base58[TxProgram(i)] = ONDO_GM_PROGRAM_ID
    /\ Len(result.message.instructions[i].data) >= 8
    /\ SubSeq(result.message.instructions[i].data, 1, 8) = MintGmTag

C16_InstructionOrder ==
    BuiltTransaction
        => LET info == trade_info.v
               ixs == result.message.instructions
           IN  /\ Len(ixs) >= 5
               /\ IsCreate(1, info.taker, Base58[info.gm_token_mint])
               /\ IsCreate(2, info.maker, Base58[info.gm_token_mint])
               /\ IsCreate(3, info.taker, USDC_MINT)
               /\ IsCreate(4, info.maker, USDC_MINT)
               /\ IsMintGm(5)
               /\ Len(ixs[5].accounts) = 12
               /\ Len(ixs[5].data) = 16
               /\ TxAccount(5, 2) = info.maker
               /\ TxAccount(5, 6) = info.gm_token_mint
               /\ DigitsOf(info.gm_token_amount, SubSeq(ixs[5].data, 9, 16))
               /\ \A i \in 1..Len(ixs) : IsMintGm(i) => \A j \in 1..Len(ixs) :
                      Base58[TxProgram(j)] = ASSOCIATED_TOKEN_PROGRAM_ID => j < i

\* a transaction built for a trade of 1 500 000 000 AAPLon between a user and a solver
C16_Witness ==
    /\ BuiltTransaction
    /\ trade_info.v.taker = "user"
    /\ trade_info.v.maker = "solver1"
    /\ trade_info.v.gm_token_mint = "aaplon"
    /\ trade_info.v.gm_token_amount = <<12032, 22888, 0, 0>>
    /\ IsMintGm(5)
    /\ TxAccount(5, 2) = "solver1"

(***************************************************************************)
(* C17: build_mock_mint_gm_instruction and                                 *)
(* build_mock_mint_gm_instruction_with_ata return an instruction of the    *)
(* Ondo GM program with exactly 12 account references, in the order payer, *)
(* authority, user, role PDA, sanity-check PDA, mint-authority PDA, mint,  *)
(* destination, manager-state PDA, token program, associated-token         *)
(* program, system program; only slots 0 and 1 are signers (both the admin *)
(* minter) and exactly slots 0, 4, 6 and 7 are writable.                   *)
(***************************************************************************)
\* one of the mint instruction builders has returned
BuiltInstruction ==
    /\ pc = "done"
    /\ entry \in { "build_mock_mint_gm_instruction", "build_mock_mint_gm_instruction_with_ata",
                    "build_mock_mint_instruction", "build_mock_mint_instruction_to_ata" }

\* the destination owner the builder was called with
MintOwner ==
    IF entry \in {"build_mock_mint_gm_instruction", "build_mock_mint_gm_instruction_with_ata"}
    THEN trade_info.v.taker
    ELSE trade_info.v.maker

\* the address derived for program from the seeds
Pda(program, seeds) == find_program_address(seeds, program)

\* the destination token account: the one passed in, or the Token-2022 associated
\* account of the owner for the mint
MintDestination ==
    IF entry \in {"build_mock_mint_gm_instruction_with_ata", "build_mock_mint_instruction_to_ata"}
    THEN trade_info.v.maker_output_account
    ELSE Pda("ata_program", <<MintOwner, "token22", trade_info.v.gm_token_mint>>)

C17_AccountLayout ==
    BuiltInstruction
        => LET a == result.accounts
           IN  /\ Base58[result.program_id] = ONDO_GM_PROGRAM_ID
               /\ Len(a) = 12
               /\ Base58[a[1].pubkey] = ADMIN_MINTER
               /\ Base58[a[2].pubkey] = ADMIN_MINTER
               /\ a[3].pubkey = MintOwner
               /\ a[4].pubkey = Pda("gm_program", <<"MinterRoleGMToken", "admin_minter">>)
               /\ a[5].pubkey = Pda("gm_program", <<"sanity_check", trade_info.v.gm_token_mint>>)
               /\ a[6].pubkey = Pda("gm_program", <<"mint_authority">>)
               /\ a[7].pubkey = trade_info.v.gm_token_mint
               /\ a[8].pubkey = MintDestination
               /\ a[9].pubkey = Pda("gm_program", <<"usdon_manager">>)
               /\ Base58[a[10].pubkey] = TOKEN_2022_PROGRAM_ID
               /\ Base58[a[11].pubkey] = ASSOCIATED_TOKEN_PROGRAM_ID
               /\ Base58[a[12].pubkey] = SYSTEM_PROGRAM_ID
               /\ {i \in 1..Len(a) : a[i].is_signer} = {1, 2}
               /\ {i \in 1..Len(a) : a[i].is_writable} = {1, 5, 7, 8}

\* build_mock_mint_gm_instruction_with_ata has returned an instruction whose
\* destination is not the associated account of its owner
C17_Witness ==
    /\ pc = "done"
    /\ entry = "build_mock_mint_gm_instruction_with_ata"
    /\ Len(result.accounts) = 12
    /\ result.accounts[8].pubkey = "ata_a"
    /\ result.accounts[3].pubkey = "user"

(***************************************************************************)
(* C18: the payload of the synthesized mint instruction is exactly 16      *)
(* bytes: the 8 bytes instruction_discriminator("mint_gm") returns, the    *)
(* derivation the classifier uses for "fill", then the amount as 8         *)
(* little-endian bytes; the tag the synthesizer stamps is never another    *)
(* value than the derived one.                                             *)
(***************************************************************************)
\* the payload of the mint instruction that was built, alone or as the last
\* instruction of the transaction
MintPayload ==
    IF entry = "build_mock_mint_transaction"
    THEN result.message.instructions[Len(result.message.instructions)].data
    ELSE result.data

C19_AmountRoundTrip ==
    BuiltInstruction
        => /\ Len(result.data) >= 16
           /\ u64_from_le_bytes(SubSeq(result.data, 9, 16)) = trade_info.v.gm_token_amount

\* the round trip of 1 500 000 000 through build_mock_mint_gm_instruction_with_ata
C19_Witness ==
    /\ BuiltInstruction
    /\ entry = "build_mock_mint_gm_instruction_with_ata"
    /\ trade_info.v.gm_token_amount = <<12032, 22888, 0, 0>>
    /\ SubSeq(result.data, 9, 16) = <<0, 47, 104, 89, 0, 0, 0, 0>>

(***************************************************************************)
(* C20: for every GmTradeInfo the transaction build_mock_mint_transaction  *)
(* returns has exactly one signature slot, that of the admin minter, its   *)
(* fee payer and sole required signer although the taker and the maker     *)
(* appear in it, and every signature in it is the all-zero default: the    *)
(* builder never signs.                                                    *)
(***************************************************************************)
\* address k is in the account-key table of the built transaction
InTransaction(k) ==
    \E i \in 1..Len(result.message.account_keys) : result.message.account_keys[i] = k

C20_Unsigned ==
    BuiltTransaction
        => /\ Len(result.signatures) = 1
           /\ result.message.header.num_required_signatures = 1
           /\ Base58[result.message.account_keys[1]] = ADMIN_MINTER
           /\ InTransaction(trade_info.v.taker)
           /\ InTransaction(trade_info.v.maker)
           /\ \A i \in 1..Len(result.signatures) :
                  /\ Len(result.signatures[i]) = 64
                  /\ \A j \in 1..64 : result.signatures[i][j] = 0

\* a transaction built for a taker and a maker that are neither each other nor
\* the admin minter: three wallets appear, one signature slot
C20_Witness ==
    /\ BuiltTransaction
    /\ trade_info.v.taker = "user"
    /\ trade_info.v.maker = "solver1"
    /\ InTransaction("user")
    /\ InTransaction("solver1")
    /\ Len(result.signatures) = 1

(***************************************************************************)
(* simulator.rs: maybe_build_mock_mint, which runs check_gm_trade and then *)
(* builds.                                                                 *)
(***************************************************************************)
maybe_build_mock_mint == Enter("maybe_build_mock_mint", "Legacy")

\* MaybeBuild never building
MaybeBuild_none ==
    /\ pc = "Build"
    /\ result' = Ok(None)
    /\ pc' = "done"
    /\ UNCHANGED <<prev, hash, trade_info, account_keys, instructions, entry, variant, instruction>>

\* if let Some(trade_info) = result.trade_info { Ok(Some(build ..)) } else { Ok(None) }
MaybeBuild ==
    /\ pc = "Build"
    /\ result' = IF result.val.trade_info.some
                 THEN Ok(Some(build_mock_mint_transaction(result.val.trade_info.v, hash)))
                 ELSE Ok(None)
    /\ pc' = "done"
    /\ UNCHANGED <<prev, hash, trade_info, account_keys, instructions, entry, variant, instruction>>

(***************************************************************************)
(* Two calls in a row.  The first call runs to its return; the second is   *)
(* made on the same message or on a message that differs from it in one of *)
(* the ways below; prev keeps the first call and what it returned.         *)
(***************************************************************************)
PairInstructions ==
    { CompiledInstruction(KeyIdx("jupiter"), Buy, DataA),
      CompiledInstruction(KeyIdx("jupiter"), UnauthorizedBuy, DataA),
      CompiledInstruction(KeyIdx("jupiter"), OtherToken, DataA),
      CompiledInstruction(KeyIdx("jupiter"), Buy, SubSeq(DataA, 1, 31)),
      CompiledInstruction(KeyIdx("jupiter"), [Buy EXCEPT ![OUTPUT_MINT + 1] = PastEnd], DataA),
      CompiledInstruction(KeyIdx("token22"), Buy, DataA) }

PairTradeInfos ==
    { info \in TradeInfos :
        /\ info.maker = "solver1"
        /\ info.taker = "user"
        /\ info.gm_token_mint = "aaplon"
        /\ info.gm_token_amount = <<12032, 22888, 0, 0>>
        /\ info.maker_output_account = "ata_a"
        /\ info.gm_token_symbol = "AAPLon" }

PairInit ==
    /\ account_keys = Keys
    /\ instructions \in SeqsUpTo(PairInstructions, MaxIx)
    /\ trade_info \in {Some(info) : info \in PairTradeInfos}
    /\ entry = "none"
    /\ variant = "none"
    /\ pc = "idle"
    /\ instruction = None
    /\ result = Pending
    /\ hash = "hash_a"
    /\ prev = None

\* one-based position of the first instruction find_fill selects, 0 when there is none
Found ==
    LET f == find_fill(instructions, jupiter_order_engine_program_id, account_keys)
    IN  IF f.some THEN f.v + 1 ELSE 0

\* the fill with the bytes of its input amount, payload offsets [8, 16), changed
ChangeInputAmount(ix) ==
    [ix EXCEPT !.data = [i \in 1..Len(ix.data) |->
                            IF i >= 9 /\ i <= 16 THEN (ix.data[i] + 1) % 256 ELSE ix.data[i]]]

\* the fill with bytes added to its payload at offset 32 and beyond
ChangeTail(ix) == [ix EXCEPT !.data = ix.data \o <<1, 2, 3>>]

\* the fill with every account slot other than 0, 1, 5 and 8 pointed past the key table
ChangeOtherSlots(ix) ==
    [ix EXCEPT !.accounts = [i \in 1..Len(ix.accounts) |->
                                IF i - 1 \in {TAKER, MAKER, MAKER_OUTPUT_ATA, OUTPUT_MINT}
                                THEN ix.accounts[i] ELSE PastEnd]]

Changes == {"same", "input_amount", "tail", "other_slots", "later_dropped", "later_added"}

\* change c can be made to the message
ChangeApplies(c) ==
    CASE c = "same" -> TRUE
      [] c = "input_amount" -> Found > 0 /\ Len(instructions[Found].data) > 8
      [] c = "tail" -> Found > 0 /\ Len(instructions[Found].data) >= 32
      [] c = "other_slots" -> Found > 0 /\ Len(instructions[Found].accounts) > 2
      [] c = "later_dropped" -> Found > 0 /\ Found < Len(instructions)
      [] c = "later_added" -> Found > 0

\* the instructions of the message after change c
Changed(c) ==
    CASE c = "same" -> instructions
      [] c = "input_amount" -> [instructions EXCEPT ![Found] = ChangeInputAmount(@)]
      [] c = "tail" -> [instructions EXCEPT ![Found] = ChangeTail(@)]
      [] c = "other_slots" -> [instructions EXCEPT ![Found] = ChangeOtherSlots(@)]
      [] c = "later_dropped" -> SubSeq(instructions, 1, Found)
      [] c = "later_added" ->
             SubSeq(instructions, 1, Found)
                 \o <<CompiledInstruction(KeyIdx("jupiter"), Buy2, DataB)>>

\* the first call has returned; the caller makes ready for the second
NextCall ==
    /\ pc = "done"
    /\ ~prev.some
    /\ \E c \in Changes :
           /\ ChangeApplies(c)
           /\ (c # "same") => entry \in {"check_gm_trade", "check_gm_trade_message",
                                         "check_gm_trade_versioned",
                                         "check_gm_trade_versioned_message"}
           /\ prev' = Some([ entry |-> entry, variant |-> variant,
                             instruction |-> instruction, result |-> result, change |-> c ])
           /\ instructions' = Changed(c)
    /\ pc' = "idle"
    /\ entry' = "none"
    /\ variant' = "none"
    /\ instruction' = None
    /\ result' = Pending
    /\ UNCHANGED <<hash, trade_info, account_keys>>

PairNext ==
    \/ check_gm_trade
    \/ check_gm_trade_message
    \/ check_gm_trade_versioned
    \/ check_gm_trade_versioned_message
    \/ call_parse_fill_for_gm_trade
    \/ maybe_build_mock_mint
    \/ MessageCheckEmpty
    \/ MessageFindFill
    \/ MessageParse
    \/ V0CheckEmpty
    \/ V0FindFill
    \/ V0Parse
    \/ ParseReturn
    \/ MaybeBuild
    \/ call_build_mock_mint_transaction
    \/ call_build_mock_mint_instruction
    \/ call_build_mock_mint_instruction_to_ata
    \/ call_build_mock_mint_gm_instruction
    \/ call_build_mock_mint_gm_instruction_with_ata
    \/ NextCall

PairSpec == PairInit /\ [][PairNext]_vars

(***************************************************************************)
(* C21: maybe_build_mock_mint returns Ok(Some(tx)) exactly when            *)
(* check_gm_trade on the same transaction returns use_gm_bundle_sim =      *)
(* true, tx being build_mock_mint_transaction(that trade_info,             *)
(* recent_blockhash); Ok(None) exactly when check_gm_trade returns a       *)
(* not-GM verdict; Err(e) exactly when check_gm_trade returns Err(e), the  *)
(* same error, and then no transaction is built.                           *)
(***************************************************************************)
\* maybe_build_mock_mint has returned, after check_gm_trade returned on the same message
MaybeBuildAfterCheck ==
    /\ pc = "done"
    /\ entry = "maybe_build_mock_mint"
    /\ prev.some
    /\ prev.v.entry = "check_gm_trade"
    /\ prev.v.change = "same"

C21_MaybeBuildComposition ==
    MaybeBuildAfterCheck
        => LET checked == prev.v.result
           IN  IF ~checked.ok THEN result = checked
               ELSE IF checked.val.use_gm_bundle_sim
               THEN /\ result.ok
                    /\ result.val.some
                    /\ result.val.v = build_mock_mint_transaction(checked.val.trade_info.v, hash)
               ELSE result.ok /\ ~result.val.some

\* a GM trade: check_gm_trade set the flag and maybe_build_mock_mint returned a transaction
C21_Witness ==
    /\ MaybeBuildAfterCheck
    /\ prev.v.result.ok
    /\ prev.v.result.val.use_gm_bundle_sim
    /\ result.ok
    /\ result.val.some
    /\ Len(result.val.v.message.instructions) = 5

(***************************************************************************)
(* C22  Call independence: a call made after another call has returned     *)
(* gives, for the same function and the same arguments, the result the     *)
(* earlier call gave; nothing a call does is kept for the next one.  The   *)
(* allow-list and the GM token table are constants of the program and are  *)
(* the same for both calls.                                                *)
(***************************************************************************)
\* the second call has returned and was the first call's function on its arguments
SameCallAgain ==
    /\ pc = "done"
    /\ prev.some
    /\ prev.v.change = "same"
    /\ prev.v.entry = entry
    /\ prev.v.variant = variant
    /\ (entry = "parse_fill_for_gm_trade") => (prev.v.instruction = instruction)
    /\ (entry = "build_mock_mint_transaction")
           => (prev.v.result.message.recent_blockhash = result.message.recent_blockhash)

V0Returned ==
    /\ pc = "done"
    /\ variant = "V0"
    /\ entry \in {"check_gm_trade_versioned", "check_gm_trade_versioned_message"}

BeyondStaticKeys(i) == i >= Len(account_keys)

\* ix carries the fill tag and names its program by an index beyond the static keys
FillBeyondStaticKeys(ix) ==
    /\ BeyondStaticKeys(ix.program_id_index)
    /\ Len(ix.data) >= 8
    /\ \A i \in 1..8 : ix.data[i] = FillTag[i]

\* the statement without the provisos: any of the four slots beyond the static keys
C23_AnySlotBeyondStaticKeys ==
    (V0Returned /\ WireFillAt # {})
        => LET ix == instructions[FirstWireFill]
           IN  (\E s \in {0, 1, 5, 8} : SlotState(ix, s) = "past_end")
                   => ReturnedErr("MissingAccount")

C23_StaticKeysOnly ==
    V0Returned =>
        /\ instruction.some => ~BeyondStaticKeys(instructions[instruction.v + 1].program_id_index)
        /\ (instructions # <<>> /\ WireFillAt = {}) => ReturnedNotGm
        /\ WireFillAt # {}
               => LET ix == instructions[FirstWireFill]
                  IN  ( /\ Len(ix.data) >= 32
                        /\ ~SlotsResolve(ix)
                        /\ SlotState(ix, SlotOrder[FirstUnresolved(ix)]) = "past_end" )
                          => result = [ok |-> FALSE, err |-> [kind |-> "MissingAccount"]]

\* a V0 message of two instructions: the first carries the fill tag under a program
\* index beyond the static keys, the second is a fill whose output mint is beyond them
C23_Witness ==
    /\ V0Returned
    /\ Len(instructions) = 2
    /\ FillBeyondStaticKeys(instructions[1])
    /\ WireFillAt = {2}
    /\ SlotState(instructions[2], 8) = "past_end"
    /\ ReturnedErr("MissingAccount")

(***************************************************************************)
(* C24  Error precedence in extraction: the payload length is checked      *)
(* first, then the slots are resolved in the order maker (1), taker (0),   *)
(* maker output account (5), output mint (8), then the maker is checked    *)
(* against the allow-list, then the output mint against the GM tokens; the *)
(* first check that fails decides the outcome.  A short payload is         *)
(* reported even when the maker is unauthorized, an unresolvable slot      *)
(* before UnauthorizedMaker, and an unauthorized maker even when the       *)
(* output mint is not a GM token.                                          *)
(***************************************************************************)
\* the error a slot that does not resolve is reported with
SlotError(ix, s) ==
    IF SlotState(ix, s) = "absent" THEN "InvalidAccountIndex" ELSE "MissingAccount"

\* the first of the checks, in the stated order, that ix fails; "none" when it passes all
FirstFailing(ix) ==
    IF Len(ix.data) < 32 THEN "length"
    ELSE IF SlotState(ix, 1) # "resolved" THEN "maker"
    ELSE IF SlotState(ix, 0) # "resolved" THEN "taker"
    ELSE IF SlotState(ix, 5) # "resolved" THEN "maker_output"
    ELSE IF SlotState(ix, 8) # "resolved" THEN "output_mint"
    ELSE IF Base58[SlotKey(ix, 1)] \notin AllowList THEN "authorization"
    ELSE IF Base58[SlotKey(ix, 8)] \notin RecognizedMints THEN "recognition"
    ELSE "none"

C24_ErrorPrecedence ==
    HasSubject =>
        LET ix == Subject
            failing == FirstFailing(ix)
        IN  CASE failing = "length" -> ReturnedErr("InstructionParseError")
              [] failing = "maker" -> ReturnedErr(SlotError(ix, 1))
              [] failing = "taker" -> ReturnedErr(SlotError(ix, 0))
              [] failing = "maker_output" -> ReturnedErr(SlotError(ix, 5))
              [] failing = "output_mint" -> ReturnedErr(SlotError(ix, 8))
              [] failing = "authorization" ->
                     result = [ok |-> FALSE,
                               err |-> [kind |-> "UnauthorizedMaker", pubkey |-> SlotKey(ix, 1)]]
              [] failing = "recognition" -> ReturnedNotGm
              [] failing = "none" -> ReturnedInfo.some

\* the taker's index is past the key table and the maker slot is absent: the maker's
\* error is the one reported
C24_Witness ==
    /\ HasSubject
    /\ entry \in CheckEntries
    /\ Len(Subject.data) >= 32
    /\ SlotState(Subject, 0) = "past_end"
    /\ SlotState(Subject, 1) = "absent"
    /\ ReturnedErr("InvalidAccountIndex")

(***************************************************************************)
(* C25  Legacy and V0 agree: for the same account keys and the same        *)
(* instructions, check_gm_trade_message on a legacy message and            *)
(* check_gm_trade_versioned_message on a V0 message return the same        *)
(* outcome, and check_gm_trade_versioned_message on a wrapped legacy       *)
(* message returns exactly what check_gm_trade_message returns.            *)
(***************************************************************************)
\* check_gm_trade_message returned, then check_gm_trade_versioned_message was called
\* on a message of format v with the same keys and instructions and has returned
VersionedAfterLegacy(v) ==
    /\ pc = "done"
    /\ prev.some
    /\ prev.v.change = "same"
    /\ prev.v.entry = "check_gm_trade_message"
    /\ entry = "check_gm_trade_versioned_message"
    /\ variant = v

C25_LegacyV0Equivalence ==
    \A v \in {"Legacy", "V0"} : VersionedAfterLegacy(v) => result = prev.v.result

\* two fills, the first not a GM trade: both formats return the not-GM verdict
C25_Witness ==
    /\ VersionedAfterLegacy("V0")
    /\ Len(instructions) = 2
    /\ WireFillAt = {1, 2}
    /\ GmFill(instructions[2])
    /\ ReturnedNotGm

(***************************************************************************)
(* C26  No fall-through after the first match: when the first instruction  *)
(* that matches program id and tag fails extraction (short payload,        *)
(* unresolvable slot, unauthorized maker) or has an output mint that is    *)
(* not a GM token, a check returns that error or the not-GM verdict even   *)
(* when a later instruction of the list is a well-formed fill by an        *)
(* authorized maker for a GM token; the later instruction is not selected. *)
(***************************************************************************)
\* a check has returned on a list whose first fill is not a GM trade and is
\* followed by a fill that is
LaterGmFill ==
    /\ pc = "done"
    /\ entry \in CheckEntries
    /\ WireFillAt # {}
    /\ ~GmFill(instructions[FirstWireFill])
    /\ \E j \in (FirstWireFill + 1)..Len(instructions) : GmFill(instructions[j])

C26_NoFallThrough ==
    LaterGmFill =>
        LET ix == instructions[FirstWireFill]
            failing == FirstFailing(ix)
        IN  /\ instruction = [some |-> TRUE, v |-> FirstWireFill - 1]
            /\ ~ReturnedInfo.some
            /\ failing # "none"
            /\ (failing = "recognition") <=> ReturnedNotGm
            /\ (failing = "length") <=> ReturnedErr("InstructionParseError")
            /\ (failing = "authorization") <=> ReturnedErr("UnauthorizedMaker")
            /\ (failing \in {"maker", "taker", "maker_output", "output_mint"})
                   <=> (ReturnedErr("InvalidAccountIndex") \/ ReturnedErr("MissingAccount"))

\* the first fill has an unauthorized maker, the second is a GM trade
C26_Witness ==
    /\ LaterGmFill
    /\ entry = "check_gm_trade"
    /\ FirstWireFill = 1
    /\ GmFill(instructions[2])
    /\ ReturnedErr("UnauthorizedMaker")

(***************************************************************************)
(* C27  Symbol lookup agrees with recognition: get_gm_token_symbol(k) is   *)
(* Some exactly when is_gm_token(k) holds, and in every GmTradeInfo a call *)
(* returns, gm_token_symbol is the symbol the table pairs with             *)
(* gm_token_mint; the placeholder "GM" is never produced.                  *)
(***************************************************************************)
\* the symbols the table pairs with the address of key k
TableSymbols(k) == {GM_TOKENS[i][1] : i \in {j \in 1..Len(GM_TOKENS) : GM_TOKENS[j][2] = Base58[k]}}

C27_SymbolAgreesWithTable ==
    /\ \A i \in 1..Len(account_keys) :
           get_gm_token_symbol(account_keys[i]).some <=> is_gm_token(account_keys[i])
    /\ ReturnedInfo.some
           => /\ TableSymbols(ReturnedInfo.v.gm_token_mint) = {ReturnedInfo.v.gm_token_symbol}
              /\ ReturnedInfo.v.gm_token_symbol # "GM"

\* a check returned a trade in the token of the table's first row, among keys that are no GM token
C27_Witness ==
    /\ ReturnedInfo.some
    /\ entry = "check_gm_trade_versioned"
    /\ ReturnedInfo.v.gm_token_mint = "aalon"
    /\ ReturnedInfo.v.gm_token_symbol = "AALon"
    /\ \E i \in 1..Len(account_keys) : ~is_gm_token(account_keys[i])

(***************************************************************************)
(* C28  In the transaction build_mock_mint_transaction returns, the        *)
(* destination (slot 7) of the final mint_gm instruction is the Token-2022 *)
(* associated token account of (maker, GM mint), the same address as the   *)
(* account the second instruction creates, which precedes the mint.  The   *)
(* two GM creates name the Token-2022 program and the two USDC creates the *)
(* SPL Token program; all four are paid by the admin minter.               *)
(***************************************************************************)
\* the associated token account of wallet for mint under token program
AtaOf(wallet, mint, program) == Pda("ata_program", <<wallet, program, mint>>)

\* instruction i of the built transaction invokes the associated-token program to
\* create account ata under token program, paid by the admin minter
CreatesUnder(i, ata, program) ==
    /\ Base58[TxProgram(i)] = ASSOCIATED_TOKEN_PROGRAM_ID
    /\ Len(result.message.instructions[i].accounts) = 6
    /\ Base58[TxAccount(i, 0)] = ADMIN_MINTER
    /\ TxAccount(i, 1) = ata
    /\ Base58[TxAccount(i, 5)] = program

C28_MintDestinationCreated ==
    BuiltTransaction
        => LET info == trade_info.v
               last == Len(result.message.instructions)
           IN  /\ last = 5
               /\ IsMintGm(last)
               /\ TxAccount(last, 7) = AtaOf(info.maker, info.gm_token_mint, "token22")
               /\ TxAccount(last, 7) = TxAccount(2, 1)
               /\ CreatesUnder(1, AtaOf(info.taker, info.gm_token_mint, "token22"),
                               TOKEN_2022_PROGRAM_ID)
               /\ CreatesUnder(2, AtaOf(info.maker, info.gm_token_mint, "token22"),
                               TOKEN_2022_PROGRAM_ID)
               /\ CreatesUnder(3, AtaOf(info.taker, "usdc", "spl_token"), SPL_TOKEN_PROGRAM_ID)
               /\ CreatesUnder(4, AtaOf(info.maker, "usdc", "spl_token"), SPL_TOKEN_PROGRAM_ID)

\* a trade whose maker output account is another account than the destination minted to
C28_Witness ==
    /\ BuiltTransaction
    /\ trade_info.v.maker = "solver1"
    /\ trade_info.v.taker = "user"
    /\ trade_info.v.maker_output_account = "ata_a"
    /\ TxAccount(5, 7) = TxAccount(2, 1)
    /\ TxAccount(5, 7) # TxAccount(1, 1)
    /\ TxAccount(5, 7) # "ata_a"

(***************************************************************************)
(* C29  build_mock_mint_gm_instruction_with_ata(mint, dest, owner, amount) *)
(* and build_mock_mint_gm_instruction(mint, owner, amount) return the same *)
(* program id, the same payload and the same 11 account references outside *)
(* slot 7, where the first has dest; they return the same instruction when *)
(* dest is the Token-2022 associated token account of (owner, mint).       *)
(* build_mock_mint_instruction_to_ata puts trade_info.maker_output_account *)
(* in slot 7 and the maker in slot 2.                                      *)
(***************************************************************************)
\* build_mock_mint_gm_instruction_with_ata has returned
BuiltWithAta == pc = "done" /\ entry = "build_mock_mint_gm_instruction_with_ata"

\* what build_mock_mint_gm_instruction returns for the mint, owner and amount of that call
Derived ==
    build_mock_mint_gm_instruction(
        trade_info.v.gm_token_mint, trade_info.v.taker, trade_info.v.gm_token_amount)

C29_WithAtaEquivalence ==
    /\ BuiltWithAta
           => /\ result.program_id = Derived.program_id
              /\ result.data = Derived.data
              /\ Len(result.accounts) = 12
              /\ Len(Derived.accounts) = 12
              /\ \A s \in (0..11) \ {7} : result.accounts[s + 1] = Derived.accounts[s + 1]
              /\ result.accounts[8].pubkey = trade_info.v.maker_output_account
              /\ (trade_info.v.maker_output_account
                      = AtaOf(trade_info.v.taker, trade_info.v.gm_token_mint, "token22"))
                     => result = Derived
    /\ (pc = "done" /\ entry = "build_mock_mint_instruction_to_ata")
           => /\ Len(result.accounts) = 12
              /\ result.accounts[8].pubkey = trade_info.v.maker_output_account
              /\ result.accounts[3].pubkey = trade_info.v.maker

\* the destination passed in is the associated account of the owner: the two
\* builders return one instruction
C29_Witness ==
    /\ BuiltWithAta
    /\ trade_info.v.maker_output_account
           = AtaOf(trade_info.v.taker, trade_info.v.gm_token_mint, "token22")
    /\ result = Derived
    /\ result.accounts[8].is_writable

(***************************************************************************)
(* C30  Two messages that differ only in the input-amount bytes [8, 16) of *)
(* the fill payload, in payload bytes at offset 32 and beyond, in the      *)
(* accounts at instruction slots other than 0, 1, 5 and 8, or in the       *)
(* instructions placed after the first matching fill, yield the same       *)
(* outcome of a check.                                                     *)
(***************************************************************************)
\* a check returned on a message, and a check has now returned on the message changed by c
CheckedAfterChange(c) ==
    /\ pc = "done"
    /\ prev.some
    /\ prev.v.change = c
    /\ prev.v.entry \in CheckEntries
    /\ entry \in CheckEntries

C30_UnreadInputs ==
    \A c \in Changes \ {"same"} : CheckedAfterChange(c) => result = prev.v.result

\* a GM trade is returned again after the input amount of its fill was changed
C30_Witness ==
    /\ CheckedAfterChange("input_amount")
    /\ ReturnedInfo.some
    /\ FirstWireFill = 1
    /\ SubSeq(instructions[1].data, 9, 16) # SubSeq(DataA, 9, 16)
    /\ SubSeq(instructions[1].data, 17, 32) = SubSeq(DataA, 17, 32)

====
